---- MODULE Spec2Model ----
(***************************************************************************)
(* State-machine model of the knowledge-graph ingestion runtime:           *)
(*   - the JSON key/value store and the doc-status store (storage/),       *)
(*   - the temp-file + rename flush of a store (storage/io.rs),            *)
(*   - the ingest front (pipeline/pipeline.rs, routes/documents.rs),       *)
(*   - the scheduler, its queue and the worker pool                        *)
(*     (pipeline/scheduler.rs).                                            *)
(* Each part has its own specification over the shared variables; the      *)
(* variables of the other parts stay at their initial values.              *)
(***************************************************************************)
EXTENDS Integers, Sequences, FiniteSets, TLC

(***************************************************************************)
(* Bounds of the model.                                                    *)
(***************************************************************************)
MaxTime == 3      \* the unix clock runs over 2..MaxTime
MaxBatch == 1     \* records per upsert call
NumFlushers == 2  \* tasks that call into one store concurrently
NumUploads == 2   \* upload requests the server handles, possibly at once
NumDocs == 2      \* documents handed to the scheduler
ChunksPerDoc == 1 \* chunk records of a document
NumWorkers == 2   \* tasks of the worker pool
QueueCapacity == 2  \* Queue.capacity
MaxSends == 12    \* an extraction fails only while its chunk was sent fewer times
NumPgDocs == 11   \* documents of the paginated doc-status store
MaxStamp == 3     \* updated_at values of its records run over 1..MaxStamp
NumCallers == 2   \* tasks that call Pipeline::process_queue
NumRunners == 2   \* tasks that call Scheduler::run
MaxTokens == 6    \* tokens of the longest document given to the chunker
MaxWindow == 4    \* largest max_tokens and overlap_tokens
NumTokenKinds == 2  \* distinct tokens of a document that repeats itself
NumErChunks == 3  \* chunks of the document whose extraction results arrive

\* poll GETs of one call that are followed
MaxPolls == 3

\* uploads that move a file into __enqueued__
NumMovers == 3

\* stores registered with the StorageManager
NumStores == 4

\* job ids given to a Queue, its capacity, and the ticks of its clock
NumQuJobs == 2
QuCapacity == 2
MaxNow == 1

\* workers that store the success of a chunk, one chunk each
NumDuWorkers == 2

\* the dispatch runs: chunk records of the document, a work and a result
\* channel scaled down to DpCapacity messages, and the tasks of the pool
NumDpChunks == 3
DpCapacity == 1
NumDpWorkers == 2

(***************************************************************************)
(* Numbers the code fixes.                                                 *)
(***************************************************************************)
ChunkMaxRetries == 10    \* ChunkState.max_retries
JobMaxRetries == 5       \* Job.max_retries
ChannelCapacity == 100   \* mpsc::channel(100), both channels
PageSizeMin == 10        \* page_size.clamp(10, 200)
PageSizeMax == 200

\* rounds of the create loop: for attempt in 0..5
MaxAttempts == 5

(***************************************************************************)
(* JSON values.  An object is a function from field names to field values, *)
(* every other value is modelled by a number.                              *)
(***************************************************************************)
EmptyMap == [f \in {} |-> 0]

NoValue == [kind |-> "none", map |-> EmptyMap, num |-> 0]

Obj(m) == [kind |-> "object", map |-> m, num |-> 0]

Num(n) == [kind |-> "number", map |-> EmptyMap, num |-> n]

SetField(m, f, v) == [x \in DOMAIN m \cup {f} |-> IF x = f THEN v ELSE m[x]]

Keys == {"k1", "k2"}

Namespaces == {"full_docs", "text_chunks"}

\* field presence of the records handed to upsert
MkInput(ct, ut, id, lcl) ==
    ("value" :> 7)
      @@ (IF ct THEN "create_time" :> 1 ELSE EmptyMap)
      @@ (IF ut THEN "update_time" :> 1 ELSE EmptyMap)
      @@ (IF id THEN "_id" :> "other" ELSE EmptyMap)
      @@ (IF lcl THEN "llm_cache_list" :> <<1>> ELSE EmptyMap)

\* a record with none of the reserved fields, with a create_time, with a
\* cache list, with all four reserved fields, and a value that is no object
Inputs ==
    {Obj(MkInput(p[1], p[2], p[3], p[4])) :
        p \in {<<FALSE, FALSE, FALSE, FALSE>>, <<TRUE, FALSE, FALSE, FALSE>>,
               <<FALSE, FALSE, FALSE, TRUE>>, <<TRUE, TRUE, TRUE, TRUE>>}}
      \cup {Num(7)}

\* the batches of records an upsert call may carry
Batches ==
    UNION {[S -> Inputs] : S \in {T \in SUBSET Keys : Cardinality(T) <= MaxBatch}}

VARIABLES
    storeKind,    \* which store instance is exercised: "kv" or "doc_status"
    kvNamespace,  \* JsonKvStorage.namespace
    kvData,       \* JsonKvStorage.data: key -> stored value (NoValue = absent)
    kvDirty,      \* JsonKvStorage.dirty
    kvRet,        \* what the last read call on the kv store returned
    clock,        \* SystemTime::now() in unix seconds
    dsData,       \* JsonDocStatusStorage.data: key -> DocRecord (NoDoc = absent)
    dsDirty,      \* JsonDocStatusStorage.dirty
    dsDisk,       \* content of the doc-status file
    dsRet,        \* what the last call on the doc-status store returned
    flKind,       \* the type of the store whose flushes are followed
    flData,       \* its in-memory map: key -> 1 (held) or 0 (absent)
    flDirty,      \* its dirty flag
    flTaken,      \* the snapshots that flushes have cloned so far
    fsTarget,     \* inode the store file path names (0 = no such file)
    fsTmp,        \* inode the `{path}.tmp` path names (0 = no such file)
    fsInodes,     \* inode -> file content, a sequence of tokens
    flPc,         \* task -> where it is inside sync_if_dirty / write_json_file
    flSnap,       \* task -> the snapshot it cloned
    flHandle,     \* task -> inode of its open `file`
    flOff,        \* task -> write offset of its open `file`
    flCrashed,    \* the process was killed
    igFullDocs,   \* storages.full_docs: doc id -> stored record
    igFullDirty,  \* dirty flag of full_docs
    igDocStatus,  \* storages.doc_status: id -> DocRecord
    igInputDir,   \* the input directory: file name -> bytes
    igEnqueued,   \* the `__enqueued__` directory: file name -> bytes
    igClock,      \* chrono::Utc::now()
    upPc,         \* upload -> where its handler is
    upName,       \* upload -> safe_filename
    upBytes,      \* upload -> file_bytes
    upContent,    \* upload -> the text extract() returned
    upDocIds,     \* upload -> doc_ids of enqueue_documents
    upUnique,     \* upload -> unique_ids of enqueue_documents
    upNow,        \* upload -> `now` of enqueue_documents
    upResp,       \* upload -> status of the InsertResponse ("" = none yet)
    qJobs,        \* Queue.jobs: job ids in arrival order
    qJobsMap,     \* Queue.jobs_map: job id -> Job
    textChunks,   \* storages.text_chunks: chunk id -> chunk record
    schDocStatus, \* storages.doc_status: doc id -> status and chunks_list
    fullEntities, \* chunks whose entities and relations were upserted
    workCh,       \* the work channel: JobDispatch in flight
    resultCh,     \* the result channel: JobResult in flight
    schPc,        \* where Scheduler::run is
    tickJob,      \* schedule_tick: `job`, the clone of the peeked job
    tickIds,      \* schedule_tick: `chunk_ids`
    tickIdx,      \* schedule_tick: next chunk of job.chunks to send
    schResult,    \* process_chunk_result: `job_result`
    wkPc,         \* worker -> where its loop is
    wkDispatch,   \* worker -> the JobDispatch it received
    sent,         \* chunk id -> JobDispatch sends so far for that chunk
    pgData,       \* paginated store, data: doc id -> DocRecord (PgAbsent = none)
    pgDisk,       \* content of its file
    pgSeed,       \* the RandomState of its HashMap, which fixes iteration order
    pgRet,        \* arguments and result of the last docs_paginated call
    erResults,    \* chunk -> the EntitiesRelationships its extraction yields
    erChunkStatus,    \* chunk -> chunk_status of its ChunkState in the job
    erFullEntities,   \* storages.full_entities: entity id -> record
    erFullRelations,  \* storages.full_relations: relation id -> record
    mgFile,       \* the file of the cache store: whether it exists, and its map
    mgData,       \* JsonKvStorage.data of the cache store
    mgDirty,      \* JsonKvStorage.dirty of the cache store
    mgRet,        \* what the last call on the cache store returned
    ckArgs,       \* the arguments of the last call of the chunker
    ckRet,        \* what that call returned
    pqPc,         \* where each caller of Pipeline::process_queue is
    runPc,        \* where each caller of Scheduler::run is
    processing_lock,  \* Pipeline.processing_lock: its holder, 0 when free
    result_rx,    \* the mutex of Scheduler.result_rx: its holder, 0 when free
    llPc,  \* where the call of responses_structured is
    llAttempt,  \* attempt of its for loop
    llPosts,  \* POST requests it has sent
    llGets,  \* poll GET requests it has sent
    llLast,  \* what the last request came back with
    llRet, \* what the call returned
    qrInput,  \* the input directory: file name -> bytes
    qrEnq,  \* the directory __enqueued__: file name -> bytes
    qrPc,  \* where each upload is
    qrName,  \* file name of each upload
    qrTarget,  \* path unique_filename chose for each upload
    qrRes, \* what move_to_enqueued returned to each upload
    fzDirty,  \* store -> its dirty flag
    fzFlush,  \* store -> outcome of the write of its snapshot in this call
    fzOp,  \* the call under way: finalize_all or persist_all
    fzNext,  \* position in the list of stores of the store visited next
    fzRet, \* what the call returned
    quJobs,  \* Queue.jobs: the FIFO of job ids
    quMap,  \* Queue.jobs_map: job id -> Job
    quNow,  \* Instant::now()
    quRet, \* what the last call returned
    duData,  \* text_chunks in memory: chunk -> status
    duDirty,  \* dirty flag of text_chunks
    duDisk,  \* the text_chunks file: chunk -> status
    duPc,  \* where each task is: the workers and, as task 0, the scheduler
    duSnap,  \* the snapshot each task writes
    duChan,  \* results sent and not yet received
    duReceived, \* chunks whose result the scheduler has received
    pdDoc,  \* the full_docs record of the document
    pdCfg,  \* chunk_size and chunk_overlap of the configuration
    pdPc,  \* where process_queue is with the document
    pdChunks,  \* the chunks the chunker returned
    pdErr,  \* the error process_document returned
    pdStatus, \* the doc_status record: status, chunks_list, error_msg
    pdStore,  \* storages.text_chunks: chunk id -> stored record
    dpChunks,  \* text_chunks of the dispatch runs: chunk -> status, full_doc_id, chunk_order_index
    dpJobStatus,  \* job_status of the queued job
    dpPc,  \* where Scheduler::run is
    dpTickChunks,  \* schedule_tick: job.chunks of the cloned job, in send order
    dpIdx,  \* schedule_tick: next position of job.chunks to send
    dpWorkCh,  \* the work channel: chunk ids of the JobDispatch in flight
    dpResultCh,  \* the result channel: chunk ids of the JobResult in flight
    dpWkPc,  \* pool worker -> where its loop is
    dpWkChunk  \* pool worker -> chunk of the JobDispatch it holds

kvVars == <<storeKind, kvNamespace, kvData, kvDirty, kvRet, clock,
            dsData, dsDirty, dsDisk, dsRet>>

flVars == <<flKind, flData, flDirty, flTaken, fsTarget, fsTmp, fsInodes,
            flPc, flSnap, flHandle, flOff, flCrashed>>

igVars == <<igFullDocs, igFullDirty, igDocStatus, igInputDir, igEnqueued,
            igClock, upPc, upName, upBytes, upContent, upDocIds, upUnique,
            upNow, upResp>>

schVars == <<qJobs, qJobsMap, textChunks, schDocStatus, fullEntities, workCh,
             resultCh, schPc, tickJob, tickIds, tickIdx, schResult, wkPc,
             wkDispatch, sent>>

pgVars == <<pgData, pgDisk, pgSeed, pgRet>>

erVars == <<erResults, erChunkStatus, erFullEntities, erFullRelations>>

mgVars == <<mgFile, mgData, mgDirty, mgRet>>

ckVars == <<ckArgs, ckRet>>

mlVars == <<pqPc, runPc, processing_lock, result_rx>>

llVars == <<llPc, llAttempt, llPosts, llGets, llLast, llRet>>

qrVars == <<qrInput, qrEnq, qrPc, qrName, qrTarget, qrRes>>

fzVars == <<fzDirty, fzFlush, fzOp, fzNext, fzRet>>

quVars == <<quJobs, quMap, quNow, quRet>>

duVars == <<duData, duDirty, duDisk, duPc, duSnap, duChan, duReceived>>

pdVars == <<pdDoc, pdCfg, pdPc, pdChunks, pdErr, pdStatus, pdStore>>

dpVars == <<dpChunks, dpJobStatus, dpPc, dpTickChunks, dpIdx, dpWorkCh, dpResultCh, dpWkPc, dpWkChunk>>

extVars == <<pgVars, erVars, mgVars, ckVars, mlVars,
            llVars,
            qrVars,
            fzVars,
            quVars,
            duVars,
            pdVars,
            dpVars>>

vars == <<kvVars, flVars, igVars, schVars, extVars>>

\* what the calls on the stores of SpecKv leave alone
notKv == <<flVars, igVars, schVars, extVars>>

\* what the flush steps leave alone
notFl == <<kvVars, igVars, schVars, extVars>>

\* what the steps of an upload leave alone
notIg == <<kvVars, flVars, schVars, extVars>>

\* what the scheduler and the workers leave alone
notSch == <<kvVars, flVars, igVars, extVars>>


\* what the calls on the paginated store leave alone
notPg == <<kvVars, flVars, igVars, schVars, erVars, mgVars, ckVars, mlVars,
          llVars,
          qrVars,
          fzVars,
          quVars,
          duVars,
          pdVars,
          dpVars>>

\* what the handling of a chunk result leaves alone
notEr == <<kvVars, flVars, igVars, schVars, pgVars, mgVars, ckVars, mlVars,
          llVars,
          qrVars,
          fzVars,
          quVars,
          duVars,
          pdVars,
          dpVars>>

\* what the calls on the cache store leave alone
notMg == <<kvVars, flVars, igVars, schVars, pgVars, erVars, ckVars, mlVars,
          llVars,
          qrVars,
          fzVars,
          quVars,
          duVars,
          pdVars,
          dpVars>>

\* what a call of the chunker leaves alone
notCk == <<kvVars, flVars, igVars, schVars, pgVars, erVars, mgVars, mlVars,
          llVars,
          qrVars,
          fzVars,
          quVars,
          duVars,
          pdVars,
          dpVars>>

\* what the callers of the main loops leave alone
notMl == <<kvVars, flVars, igVars, schVars, pgVars, erVars, mgVars, ckVars,
          llVars,
          qrVars,
          fzVars,
          quVars,
          duVars,
          pdVars,
          dpVars>>

\* what a call of the LLM client leaves alone
notLl == <<kvVars, flVars, igVars, schVars,
          pgVars, erVars, mgVars, ckVars, mlVars,
          qrVars,
          fzVars,
          quVars,
          duVars,
          pdVars,
          dpVars>>

\* what the uploads that race on one file name leave alone
notQr == <<kvVars, flVars, igVars, schVars,
          pgVars, erVars, mgVars, ckVars, mlVars, llVars,
          fzVars,
          quVars,
          duVars,
          pdVars,
          dpVars>>

\* what flushing all stores leaves alone
notFz == <<kvVars, flVars, igVars, schVars,
          pgVars, erVars, mgVars, ckVars, mlVars, llVars, qrVars,
          quVars,
          duVars,
          pdVars,
          dpVars>>

\* what the calls on a Queue leave alone
notQu == <<kvVars, flVars, igVars, schVars,
          pgVars, erVars, mgVars, ckVars, mlVars, llVars, qrVars, fzVars,
          duVars,
          pdVars,
          dpVars>>

\* what the workers that store a chunk success leave alone
notDu == <<kvVars, flVars, igVars, schVars,
          pgVars, erVars, mgVars, ckVars, mlVars, llVars, qrVars, fzVars, quVars,
          pdVars,
          dpVars>>

\* what process_document leaves alone
notPd == <<kvVars, flVars, igVars, schVars,
          pgVars, erVars, mgVars, ckVars, mlVars, llVars, qrVars, fzVars, quVars, duVars,
          dpVars>>

\* what the dispatch tick and its pool leave alone
notDp == <<kvVars, flVars, igVars, schVars,
          pgVars, erVars, mgVars, ckVars, mlVars, llVars, qrVars, fzVars, quVars, duVars, pdVars>>
(***************************************************************************)
(* JsonKvStorage (storage/json_kv.rs).                                     *)
(***************************************************************************)
namespace_requires_cache_list(ns) == ns = "text_chunks"

\* the object a value is turned into: itself, or {"value": other}
AsObjectMap(value) ==
    IF value.kind = "object" THEN value.map ELSE ("value" :> value.num)

normalize_record(key, value) ==
    LET obj == AsObjectMap(value)
        withCt == IF "create_time" \in DOMAIN obj THEN obj
                  ELSE SetField(obj, "create_time", 0)
        withUt == IF "update_time" \in DOMAIN withCt THEN withCt
                  ELSE SetField(withCt, "update_time", 0)
    IN  Obj(SetField(withUt, "_id", key))

\* a decoration that stamps create_time on every write
decorate_overwrites_create_time(ns, key, value, now) ==
    LET map == AsObjectMap(value)
        withList == IF namespace_requires_cache_list(ns)
                       /\ "llm_cache_list" \notin DOMAIN map
                    THEN SetField(map, "llm_cache_list", <<>>)
                    ELSE map
    IN  Obj(SetField(SetField(SetField(withList, "create_time", now),
                              "update_time", now), "_id", key))

decorate_upsert_record(ns, key, value, now) ==
    LET map == AsObjectMap(value)
        withList == IF namespace_requires_cache_list(ns)
                       /\ "llm_cache_list" \notin DOMAIN map
                    THEN SetField(map, "llm_cache_list", <<>>)
                    ELSE map
        withTimes == IF "create_time" \in DOMAIN withList
                     THEN SetField(withList, "update_time", now)
                     ELSE SetField(SetField(withList, "create_time", now),
                                   "update_time", now)
    IN  Obj(SetField(withTimes, "_id", key))

KvPresent(data) == {k \in Keys : data[k] # NoValue}

kv_get_by_id(data, id) ==
    IF data[id] = NoValue THEN NoValue ELSE normalize_record(id, data[id])

\* a filter that keeps the keys the store holds
filter_keys_keeps_existing(present, keys) == keys \cap present

filter_keys_returns_input(present, keys) == keys

filter_keys(present, keys) == keys \ present

NoRet == [op |-> "none", key |-> "", keys |-> {}, value |-> NoValue, out |-> {}]

KvUpsert(records) ==
    /\ storeKind = "kv"
    /\ IF DOMAIN records = {}
       THEN UNCHANGED <<kvData, kvDirty>>
       ELSE /\ kvData' = [k \in Keys |->
                            IF k \in DOMAIN records
                            THEN decorate_upsert_record(kvNamespace, k, records[k], clock)
                            ELSE kvData[k]]
            /\ kvDirty' = TRUE
    /\ kvRet' = NoRet
    /\ UNCHANGED <<notKv, storeKind, kvNamespace, clock, dsData, dsDirty, dsDisk, dsRet>>

KvDelete(ids) ==
    /\ storeKind = "kv"
    /\ kvData' = [k \in Keys |-> IF k \in ids THEN NoValue ELSE kvData[k]]
    /\ kvDirty' = (kvDirty \/ (ids \cap KvPresent(kvData) # {}))
    /\ kvRet' = NoRet
    /\ UNCHANGED <<notKv, storeKind, kvNamespace, clock, dsData, dsDirty, dsDisk, dsRet>>

KvGetById(id) ==
    /\ storeKind = "kv"
    /\ kvRet' = [op |-> "get_by_id", key |-> id, keys |-> {},
                 value |-> kv_get_by_id(kvData, id), out |-> {}]
    /\ UNCHANGED <<notKv, storeKind, kvNamespace, kvData, kvDirty, clock,
                   dsData, dsDirty, dsDisk, dsRet>>

KvFilterKeys(keys) ==
    /\ storeKind = "kv"
    /\ kvRet' = [op |-> "filter_keys", key |-> "", keys |-> keys,
                 value |-> NoValue, out |-> filter_keys(KvPresent(kvData), keys)]
    /\ UNCHANGED <<notKv, storeKind, kvNamespace, kvData, kvDirty, clock,
                   dsData, dsDirty, dsDisk, dsRet>>

ClockTick ==
    /\ clock < MaxTime
    /\ clock' = clock + 1
    /\ UNCHANGED <<notKv, storeKind, kvNamespace, kvData, kvDirty, kvRet,
                   dsData, dsDirty, dsDisk, dsRet>>

(***************************************************************************)
(* JsonDocStatusStorage (storage/json_doc_status.rs), as one caller sees   *)
(* it: every call runs to its end before the next one starts.              *)
(***************************************************************************)
NoDoc == [present |-> FALSE, status |-> "", file_path |-> "", track_id |-> "",
          created_at |-> 0, updated_at |-> 0, chunks_list |-> <<>>,
          metadata |-> "", error_msg |-> ""]

\* DocProcessingStatus; "none" is Option::None, "null" is Value::Null
DocProcessingStatus(st, fp, tid, cat, uat, cl, md, em) ==
    [present |-> TRUE, status |-> st, file_path |-> fp, track_id |-> tid,
     created_at |-> cat, updated_at |-> uat, chunks_list |-> cl,
     metadata |-> md, error_msg |-> em]

DocRecord_normalize(rec) ==
    [rec EXCEPT !.file_path = IF @ = "none" THEN "no-file-path" ELSE @,
                !.metadata = IF @ = "null" THEN "{}" ELSE @]

\* the DocRecord that upsert builds from a DocProcessingStatus
DocRecord_from_status(status) ==
    DocRecord_normalize(
        [status EXCEPT !.metadata = IF @ = "none" THEN "{}" ELSE @])

DocRecord_to_status(rec) ==
    [rec EXCEPT !.file_path = IF @ = "none" THEN "no-file-path" ELSE @,
                !.metadata = IF @ = "null" THEN "{}" ELSE @]

DsPresent(data) == {k \in DOMAIN data : data[k].present}

ds_get_by_id(data, id) ==
    IF data[id].present THEN DocRecord_to_status(data[id]) ELSE NoDoc

\* sync_if_dirty run without interleaving: the flag is swapped to false
\* first; the write replaces the file or fails and leaves it.
sync_if_dirty_outcomes(data, dirty, disk) ==
    IF ~dirty
    THEN {[dirty |-> FALSE, disk |-> disk, ok |-> TRUE]}
    ELSE {[dirty |-> FALSE, disk |-> data, ok |-> TRUE],
          [dirty |-> FALSE, disk |-> disk, ok |-> FALSE]}

DsInputs ==
    {DocProcessingStatus(st, fp, "track-1", 1, 1, <<>>, md, "none") :
        st \in {"PENDING", "PROCESSED"}, fp \in {"none", "a.txt"},
        md \in {"none", "null", "{}"}}

DsBatches ==
    UNION {[S -> DsInputs] : S \in {T \in SUBSET Keys : Cardinality(T) <= MaxBatch}}

DsNoRet == [op |-> "none", keys |-> {}, out |-> {}, ok |-> TRUE]

DsUpsert(records) ==
    /\ storeKind = "doc_status"
    /\ IF DOMAIN records = {}
       THEN /\ UNCHANGED <<dsData, dsDirty, dsDisk>>
            /\ dsRet' = [DsNoRet EXCEPT !.op = "upsert"]
       ELSE LET data == [k \in Keys |->
                            IF k \in DOMAIN records
                            THEN DocRecord_from_status(records[k])
                            ELSE dsData[k]]
            IN  \E o \in sync_if_dirty_outcomes(data, TRUE, dsDisk) :
                  /\ dsData' = data
                  /\ dsDirty' = o.dirty
                  /\ dsDisk' = o.disk
                  /\ dsRet' = [DsNoRet EXCEPT !.op = "upsert", !.ok = o.ok]
    /\ UNCHANGED <<notKv, storeKind, kvNamespace, kvData, kvDirty, kvRet, clock>>

DsDelete(ids) ==
    /\ storeKind = "doc_status"
    /\ dsData' = [k \in Keys |-> IF k \in ids THEN NoDoc ELSE dsData[k]]
    /\ dsDirty' = (dsDirty \/ (ids \cap DsPresent(dsData) # {}))
    /\ dsRet' = [DsNoRet EXCEPT !.op = "delete"]
    /\ UNCHANGED <<notKv, storeKind, kvNamespace, kvData, kvDirty, kvRet, clock, dsDisk>>

DsSyncIfDirty ==
    /\ storeKind = "doc_status"
    /\ \E o \in sync_if_dirty_outcomes(dsData, dsDirty, dsDisk) :
          /\ dsDirty' = o.dirty
          /\ dsDisk' = o.disk
          /\ dsRet' = [DsNoRet EXCEPT !.op = "sync_if_dirty", !.ok = o.ok]
    /\ UNCHANGED <<notKv, storeKind, kvNamespace, kvData, kvDirty, kvRet, clock, dsData>>

\* drop_all: an empty map returns at once; otherwise the map is cleared,
\* the flag is set and sync_if_dirty runs
DsDropAll ==
    /\ storeKind = "doc_status"
    /\ IF DsPresent(dsData) = {}
       THEN /\ UNCHANGED <<dsData, dsDirty, dsDisk>>
            /\ dsRet' = [DsNoRet EXCEPT !.op = "drop_all"]
       ELSE LET data == [k \in Keys |-> NoDoc]
            IN  \E o \in sync_if_dirty_outcomes(data, TRUE, dsDisk) :
                  /\ dsData' = data
                  /\ dsDirty' = o.dirty
                  /\ dsDisk' = o.disk
                  /\ dsRet' = [DsNoRet EXCEPT !.op = "drop_all", !.ok = o.ok]
    /\ UNCHANGED <<notKv, storeKind, kvNamespace, kvData, kvDirty, kvRet, clock>>

DsFilterKeys(keys) ==
    /\ storeKind = "doc_status"
    /\ dsRet' = [op |-> "filter_keys", keys |-> keys,
                 out |-> filter_keys(DsPresent(dsData), keys), ok |-> TRUE]
    /\ UNCHANGED <<notKv, storeKind, kvNamespace, kvData, kvDirty, kvRet, clock,
                   dsData, dsDirty, dsDisk>>


\* serde_json of a DocRecord: an Option that is None is written as null
DocRecord_to_json(rec) ==
    [rec EXCEPT !.file_path = IF @ = "none" THEN "null" ELSE @,
                !.track_id = IF @ = "none" THEN "null" ELSE @,
                !.error_msg = IF @ = "none" THEN "null" ELSE @]

\* and back: null is read as None; a metadata of null stays Value::Null
DocRecord_from_json(json) ==
    [json EXCEPT !.file_path = IF @ = "null" THEN "none" ELSE @,
                 !.track_id = IF @ = "null" THEN "none" ELSE @,
                 !.error_msg = IF @ = "null" THEN "none" ELSE @]

\* the map a new JsonDocStatusStorage holds after initialize() over the file
\* that a write of `disk` left
ds_initialize(disk) ==
    [k \in DOMAIN disk |->
        IF disk[k].present
        THEN DocRecord_normalize(DocRecord_from_json(DocRecord_to_json(disk[k])))
        ELSE NoDoc]
(***************************************************************************)
(* Flushing a store: sync_if_dirty (storage/json_kv.rs and                 *)
(* storage/json_doc_status.rs hold the same code) and write_json_file      *)
(* (storage/io.rs), followed step by step for several tasks that share     *)
(* the store, its file and the one `{path}.tmp`.                           *)
(***************************************************************************)
FlTasks == 1..NumFlushers

Inodes == 1..(NumFlushers + 2)

\* the keys of the flushed store, in the order they are written
KeyOrder == <<"k1">>

FlKeys == {KeyOrder[i] : i \in 1..Len(KeyOrder)}

OpenTok == [t |-> "{", k |-> ""]

CloseTok == [t |-> "}", k |-> ""]

HoleTok == [t |-> "hole", k |-> ""]

PairTok(key) == [t |-> "pair", k |-> key]

EmptyData == [k \in FlKeys |-> 0]

\* serde_json::to_vec_pretty of the snapshot
Serialize(m) ==
    LET held == SelectSeq(KeyOrder, LAMBDA k : m[k] = 1)
    IN  <<OpenTok>> \o [i \in 1..Len(held) |-> PairTok(held[i])] \o <<CloseTok>>

\* a write of one token at 0-based offset off of a file
WriteAt(content, off, tok) ==
    LET len == IF off + 1 > Len(content) THEN off + 1 ELSE Len(content)
    IN  [i \in 1..len |-> IF i = off + 1 THEN tok
                          ELSE IF i <= Len(content) THEN content[i] ELSE HoleTok]

WellFormed(content) ==
    /\ Len(content) >= 2
    /\ content[1] = OpenTok
    /\ content[Len(content)] = CloseTok
    /\ \A i \in 2..(Len(content) - 1) : content[i].t = "pair"

\* load_or_default of the store file: no file or an empty file is the empty
\* map, a file that does not parse is an error
load_or_default(target, inodes) ==
    IF target = 0 \/ inodes[target] = <<>>
    THEN [ok |-> TRUE, map |-> EmptyData]
    ELSE IF WellFormed(inodes[target])
         THEN [ok |-> TRUE,
               map |-> [k \in FlKeys |->
                          IF \E i \in 1..Len(inodes[target]) :
                                inodes[target][i] = PairTok(k)
                          THEN 1 ELSE 0]]
         ELSE [ok |-> FALSE, map |-> EmptyData]

\* inodes that a path or an open file still refers to
Referenced(target, tmp, handle) ==
    ({target, tmp} \cup {handle[t] : t \in FlTasks}) \ {0}

\* contents with the inodes nothing refers to any more released
Collect(inodes, target, tmp, handle) ==
    [i \in Inodes |-> IF i \in Referenced(target, tmp, handle) THEN inodes[i] ELSE <<>>]

FreeInode(target, tmp, handle) ==
    CHOOSE i \in Inodes :
        /\ i \notin Referenced(target, tmp, handle)
        /\ \A j \in Inodes : j < i => j \in Referenced(target, tmp, handle)

\* the call returns: the task is idle again and its `file` is closed
Return(t) ==
    /\ flPc' = [flPc EXCEPT ![t] = "idle"]
    /\ flSnap' = [flSnap EXCEPT ![t] = EmptyData]
    /\ flOff' = [flOff EXCEPT ![t] = 0]
    /\ flHandle' = [flHandle EXCEPT ![t] = 0]

\* upsert of one key; the doc-status store goes on into sync_if_dirty
FlUpsert(t, k) ==
    /\ ~flCrashed
    /\ flPc[t] = "idle"
    /\ flData' = [flData EXCEPT ![k] = 1]
    /\ flDirty' = TRUE
    /\ flPc' = [flPc EXCEPT ![t] = IF flKind = "doc_status" THEN "sync" ELSE "idle"]
    /\ UNCHANGED <<notFl, flKind, flTaken, fsTarget, fsTmp, fsInodes,
                   flSnap, flHandle, flOff, flCrashed>>

FlDelete(t, k) ==
    /\ ~flCrashed
    /\ flPc[t] = "idle"
    /\ flData' = [flData EXCEPT ![k] = 0]
    /\ flDirty' = (flDirty \/ flData[k] = 1)
    /\ UNCHANGED <<notFl, flKind, flTaken, fsTarget, fsTmp, fsInodes,
                   flPc, flSnap, flHandle, flOff, flCrashed>>

\* sync_if_dirty, first line: dirty.swap(false)
FlSwap(t) ==
    /\ ~flCrashed
    /\ flPc[t] \in {"idle", "sync"}
    /\ flDirty' = FALSE
    /\ IF flDirty
       THEN /\ flPc' = [flPc EXCEPT ![t] = "snapshot"]
                    /\ UNCHANGED <<flSnap, flOff, flHandle>>
       ELSE Return(t)
    /\ UNCHANGED <<notFl, flKind, flTaken, flData, fsTarget, fsTmp, fsInodes, flCrashed>>

\* the clone of the map under the read lock
FlSnapshot(t) ==
    /\ ~flCrashed
    /\ flPc[t] = "snapshot"
    /\ flSnap' = [flSnap EXCEPT ![t] = flData]
    /\ flTaken' = flTaken \cup {flData}
    /\ flPc' = [flPc EXCEPT ![t] = "create"]
    /\ UNCHANGED <<notFl, flKind, flData, flDirty, fsTarget, fsTmp, fsInodes,
                   flHandle, flOff, flCrashed>>

\* File::create(tmp_path): a new file, or the existing one truncated
FlCreate(t) ==
    /\ ~flCrashed
    /\ flPc[t] = "create"
    /\ LET ino == IF fsTmp # 0 THEN fsTmp ELSE FreeInode(fsTarget, fsTmp, flHandle)
       IN  /\ fsTmp' = ino
           /\ fsInodes' = [fsInodes EXCEPT ![ino] = <<>>]
           /\ flHandle' = [flHandle EXCEPT ![t] = ino]
    /\ flOff' = [flOff EXCEPT ![t] = 0]
    /\ flPc' = [flPc EXCEPT ![t] = "write"]
    /\ UNCHANGED <<notFl, flKind, flTaken, flData, flDirty, fsTarget,
                   flSnap, flCrashed>>

\* write_all: one write of the loop, at the offset of the open file
FlWrite(t) ==
    /\ ~flCrashed
    /\ flPc[t] = "write"
    /\ flOff[t] < Len(Serialize(flSnap[t]))
    /\ fsInodes' = [fsInodes EXCEPT ![flHandle[t]] =
                       WriteAt(@, flOff[t], Serialize(flSnap[t])[flOff[t] + 1])]
    /\ flOff' = [flOff EXCEPT ![t] = @ + 1]
    /\ UNCHANGED <<notFl, flKind, flTaken, flData, flDirty, fsTarget, fsTmp,
                   flPc, flSnap, flHandle, flCrashed>>

\* file.sync_all() after the last write
FlSyncAll(t) ==
    /\ ~flCrashed
    /\ flPc[t] = "write"
    /\ flOff[t] = Len(Serialize(flSnap[t]))
    /\ flPc' = [flPc EXCEPT ![t] = "rename"]
    /\ UNCHANGED <<notFl, flKind, flTaken, flData, flDirty, fsTarget, fsTmp,
                   fsInodes, flSnap, flHandle, flOff, flCrashed>>

\* fs::rename(tmp_path, path), which fails when the temp file is gone
FlRename(t) ==
    /\ ~flCrashed
    /\ flPc[t] = "rename"
    /\ IF fsTmp = 0
       THEN /\ Return(t)
            /\ fsInodes' = Collect(fsInodes, fsTarget, fsTmp,
                                   [flHandle EXCEPT ![t] = 0])
            /\ UNCHANGED <<fsTarget, fsTmp>>
       ELSE /\ Return(t)
            /\ fsTarget' = fsTmp
            /\ fsTmp' = 0
            /\ fsInodes' = Collect(fsInodes, fsTmp, 0, [flHandle EXCEPT ![t] = 0])
    /\ UNCHANGED <<notFl, flKind, flTaken, flData, flDirty, flCrashed>>

\* an IO error of create, write_all, sync_all or rename: `?` returns it
FlIoError(t) ==
    /\ ~flCrashed
    /\ flPc[t] \in {"create", "write", "rename"}
    /\ Return(t)
    /\ fsInodes' = Collect(fsInodes, fsTarget, fsTmp, [flHandle EXCEPT ![t] = 0])
    /\ UNCHANGED <<notFl, flKind, flTaken, flData, flDirty, fsTarget, fsTmp, flCrashed>>

\* the process is killed: memory is gone, the files stay as they are
FlCrash ==
    /\ ~flCrashed
    /\ \E t \in FlTasks : flPc[t] \in {"create", "write", "rename"}
    /\ flCrashed' = TRUE
    /\ flPc' = [t \in FlTasks |-> "idle"]
    /\ flSnap' = [t \in FlTasks |-> EmptyData]
    /\ flOff' = [t \in FlTasks |-> 0]
    /\ flHandle' = [t \in FlTasks |-> 0]
    /\ flData' = EmptyData
    /\ flDirty' = FALSE
    /\ fsInodes' = Collect(fsInodes, fsTarget, fsTmp, [t \in FlTasks |-> 0])
    /\ UNCHANGED <<notFl, flKind, flTaken, fsTarget, fsTmp>>

(***************************************************************************)
(* The ingest front: POST /documents/upload (routes/documents.rs) and      *)
(* Pipeline::enqueue_file / enqueue_documents (pipeline/pipeline.rs).      *)
(* Handlers of different requests run concurrently; a handler is followed  *)
(* from one await to the next.  Text is a sequence of characters, "CR" a   *)
(* carriage return and "SP" a space.  No storage or file call fails by     *)
(* itself; a read fails when the file is not there.                        *)
(***************************************************************************)
Uploads == 1..NumUploads

FileNames == {"a.txt", "b.txt"}

RawContents == {<<"x">>, <<"x", "CR">>, <<"y">>, <<"SP">>}

IsWhitespace(c) == c \in {"SP", "CR"}

RECURSIVE TrimStart(_)
TrimStart(s) ==
    IF s # <<>> /\ IsWhitespace(Head(s)) THEN TrimStart(Tail(s)) ELSE s

RECURSIVE TrimEnd(_)
TrimEnd(s) ==
    IF s # <<>> /\ IsWhitespace(s[Len(s)])
    THEN TrimEnd(SubSeq(s, 1, Len(s) - 1))
    ELSE s

Trim(s) == TrimEnd(TrimStart(s))

sanitize_text(input) == Trim(SelectSeq(input, LAMBDA c : c # "CR"))

\* SHA-256 is taken to be free of collisions: the digest stands for its input
compute_mdhash_id(content, prefix) == [prefix |-> prefix, digest |-> content]

\* "{prefix}-{uuid}": a fresh identifier for every call
generate_track_id(r) == "upload-" \o ToString(r)

\* Utf8DocumentExtractor::extract on the bytes read
extract_ok(bytes) == bytes # <<>> /\ Trim(bytes) # <<>>

RECURSIVE unique_counter(_, _, _)
unique_counter(dir, name, counter) ==
    IF [name |-> name, n |-> counter] \notin DOMAIN dir
    THEN counter
    ELSE unique_counter(dir, name, counter + 1)

\* entry of `__enqueued__` the file moves to: its own name (n = 0), or
\* "{stem}_{n}.{ext}" for the first n >= 1 that is free
unique_filename(dir, name) ==
    IF [name |-> name, n |-> 0] \notin DOMAIN dir
    THEN [name |-> name, n |-> 0]
    ELSE [name |-> name, n |-> unique_counter(dir, name, 1)]

Without(f, x) == [y \in DOMAIN f \ {x} |-> f[y]]

PendingStatus(r) ==
    DocProcessingStatus("PENDING", upName[r], generate_track_id(r),
                        upNow[r], upNow[r], <<>>, "none", "none")

\* an error record that waits for processing
ErrorStatusPending(r) ==
    DocProcessingStatus("PENDING", upName[r], generate_track_id(r),
                        igClock, igClock, <<>>, "error", "error")

ErrorStatus(r) ==
    DocProcessingStatus("FAILED", upName[r], generate_track_id(r),
                        igClock, igClock, <<>>, "error", "error")

Respond(r, status) ==
    /\ upResp' = [upResp EXCEPT ![r] = status]
    /\ upPc' = [upPc EXCEPT ![r] = "done"]

Goto(r, pc) ==
    /\ upPc' = [upPc EXCEPT ![r] = pc]
    /\ UNCHANGED upResp

\* the multipart payload is read
UpReceive(r, name, bytes) ==
    /\ upPc[r] = "idle"
    /\ upName' = [upName EXCEPT ![r] = name]
    /\ upBytes' = [upBytes EXCEPT ![r] = bytes]
    /\ Goto(r, "check_doc")
    /\ UNCHANGED <<notIg, igFullDocs, igFullDirty, igDocStatus, igInputDir,
                   igEnqueued, igClock, upContent, upDocIds, upUnique, upNow>>

\* doc_status.get_doc_by_file_path(safe_filename)
UpCheckDoc(r) ==
    /\ upPc[r] = "check_doc"
    /\ IF \E id \in DOMAIN igDocStatus : igDocStatus[id].file_path = upName[r]
       THEN Respond(r, "duplicated")
       ELSE Goto(r, "check_file")
    /\ UNCHANGED <<notIg, igFullDocs, igFullDirty, igDocStatus, igInputDir,
                   igEnqueued, igClock, upName, upBytes, upContent, upDocIds,
                   upUnique, upNow>>

\* file_path.exists()
UpCheckFile(r) ==
    /\ upPc[r] = "check_file"
    /\ IF upName[r] \in DOMAIN igInputDir
       THEN Respond(r, "duplicated")
       ELSE Goto(r, "write")
    /\ UNCHANGED <<notIg, igFullDocs, igFullDirty, igDocStatus, igInputDir,
                   igEnqueued, igClock, upName, upBytes, upContent, upDocIds,
                   upUnique, upNow>>

\* fs::write(file_path, file_bytes)
UpWrite(r) ==
    /\ upPc[r] = "write"
    /\ igInputDir' = (upName[r] :> upBytes[r]) @@ igInputDir
    /\ Goto(r, "extract")
    /\ UNCHANGED <<notIg, igFullDocs, igFullDirty, igDocStatus, igEnqueued,
                   igClock, upName, upBytes, upContent, upDocIds, upUnique,
                   upNow>>

\* enqueue_file: extractor.extract(file_path)
EfExtract(r) ==
    /\ upPc[r] = "extract"
    /\ IF upName[r] \in DOMAIN igInputDir /\ extract_ok(igInputDir[upName[r]])
       THEN /\ upContent' = [upContent EXCEPT ![r] = igInputDir[upName[r]]]
            /\ Goto(r, "filter")
       ELSE /\ UNCHANGED upContent
            /\ Goto(r, "record_error")
    /\ UNCHANGED <<notIg, igFullDocs, igFullDirty, igDocStatus, igInputDir,
                   igEnqueued, igClock, upName, upBytes, upDocIds, upUnique,
                   upNow>>

\* enqueue_file: error_reporter.record(file_path, track_id, ...)
ErRecord(r) ==
    /\ upPc[r] = "record_error"
    /\ LET doc_id == compute_mdhash_id(
                         <<"error-", generate_track_id(r), "-", upName[r]>>,
                         "error-")
       IN  igDocStatus' =
               (doc_id :> DocRecord_from_status(ErrorStatus(r))) @@ igDocStatus
    /\ Goto(r, "respond")
    /\ UNCHANGED <<notIg, igFullDocs, igFullDirty, igInputDir, igEnqueued,
                   igClock, upName, upBytes, upContent, upDocIds, upUnique,
                   upNow>>

\* enqueue_documents up to status_service.filter_new_ids(doc_ids)
EdFilter(r) ==
    /\ upPc[r] = "filter"
    /\ LET cleaned == sanitize_text(upContent[r])
           doc_ids == IF cleaned = <<>> THEN {}
                      ELSE {compute_mdhash_id(cleaned, "doc-")}
           unique_ids == filter_keys(DOMAIN igDocStatus, doc_ids)
       IN  /\ upDocIds' = [upDocIds EXCEPT ![r] = doc_ids]
           /\ upUnique' = [upUnique EXCEPT ![r] = unique_ids]
           /\ IF unique_ids = {}
              THEN Goto(r, "move") /\ UNCHANGED upNow
              ELSE /\ Goto(r, "enq_docs")
                   /\ upNow' = [upNow EXCEPT ![r] = igClock]
    /\ UNCHANGED <<notIg, igFullDocs, igFullDirty, igDocStatus, igInputDir,
                   igEnqueued, igClock, upName, upBytes, upContent>>

\* enqueue_pending: docs_storage.upsert(docs_payload)
EdUpsertDocs(r) ==
    /\ upPc[r] = "enq_docs"
    /\ igFullDocs' =
           [id \in DOMAIN igFullDocs \cup upUnique[r] |->
               IF id \in upUnique[r]
               THEN decorate_upsert_record(
                        "full_docs", id, Obj("content" :> id.digest), igClock)
               ELSE igFullDocs[id]]
    /\ igFullDirty' = TRUE
    /\ Goto(r, "enq_status")
    /\ UNCHANGED <<notIg, igDocStatus, igInputDir, igEnqueued, igClock,
                   upName, upBytes, upContent, upDocIds, upUnique, upNow>>

\* enqueue_pending: doc_status.upsert(status_payload), which flushes
EdUpsertStatus(r) ==
    /\ upPc[r] = "enq_status"
    /\ igDocStatus' =
           [id \in DOMAIN igDocStatus \cup upUnique[r] |->
               IF id \in upUnique[r]
               THEN DocRecord_from_status(PendingStatus(r))
               ELSE igDocStatus[id]]
    /\ Goto(r, "persist")
    /\ UNCHANGED <<notIg, igFullDocs, igFullDirty, igInputDir, igEnqueued,
                   igClock, upName, upBytes, upContent, upDocIds, upUnique,
                   upNow>>

\* enqueue_documents: persist_all()
EdPersist(r) ==
    /\ upPc[r] = "persist"
    /\ igFullDirty' = FALSE
    /\ Goto(r, "move")
    /\ UNCHANGED <<notIg, igFullDocs, igDocStatus, igInputDir, igEnqueued,
                   igClock, upName, upBytes, upContent, upDocIds, upUnique,
                   upNow>>

\* enqueue_file: doc_manager.move_to_enqueued(file_path); a failed rename
\* is logged only
EfMove(r) ==
    /\ upPc[r] = "move"
    /\ IF upName[r] \in DOMAIN igInputDir
       THEN /\ igEnqueued' =
                   (unique_filename(igEnqueued, upName[r])
                        :> igInputDir[upName[r]]) @@ igEnqueued
            /\ igInputDir' = Without(igInputDir, upName[r])
       ELSE UNCHANGED <<igInputDir, igEnqueued>>
    /\ Goto(r, "respond")
    /\ UNCHANGED <<notIg, igFullDocs, igFullDirty, igDocStatus, igClock,
                   upName, upBytes, upContent, upDocIds, upUnique, upNow>>

\* enqueue_file returned Ok(track_id)
UpRespond(r) ==
    /\ upPc[r] = "respond"
    /\ Respond(r, "success")
    /\ UNCHANGED <<notIg, igFullDocs, igFullDirty, igDocStatus, igInputDir,
                   igEnqueued, igClock, upName, upBytes, upContent, upDocIds,
                   upUnique, upNow>>

IgClockTick ==
    /\ igClock < MaxTime
    /\ igClock' = igClock + 1
    /\ UNCHANGED <<notIg, igFullDocs, igFullDirty, igDocStatus, igInputDir,
                   igEnqueued, upPc, upName, upBytes, upContent, upDocIds,
                   upUnique, upNow, upResp>>

\* the upload found the id of its content in doc_status
FoundKnown(r) == upDocIds[r] # {} /\ upUnique[r] = {}

(***************************************************************************)
(* The scheduler, its queue and the worker pool (pipeline/scheduler.rs).   *)
(* Scheduler::run is one task; in each round of its loop select! polls     *)
(* schedule_tick and the receive of a result, and drops schedule_tick      *)
(* where it is when a result is received.  A task is followed from one     *)
(* await to the next.  No storage call fails.                              *)
(***************************************************************************)
Docs == 1..NumDocs

Workers == 1..NumWorkers

ChunkIds == {<<d, i>> : d \in Docs, i \in 1..ChunksPerDoc}

ChunksOf(d) == {c \in ChunkIds : c[1] = d}

DocId(d) == compute_mdhash_id(<<d>>, "doc-")

\* Job::new: "job-" + hash("{doc_id}:{timestamp}")
JobId(d) == compute_mdhash_id(<<d, 0>>, "job-")

Job_new(d) ==
    [job_id |-> JobId(d), doc_id |-> d, max_retries |-> JobMaxRetries,
     current_retry |-> 0, job_status |-> "Pending", chunks |-> <<>>]

NoJob == [job_id |-> compute_mdhash_id(<<>>, "none"), doc_id |-> 0,
          max_retries |-> 0, current_retry |-> 0, job_status |-> "",
          chunks |-> <<>>]

ChunkState(c, d) ==
    [chunk_id |-> c, doc_id |-> d, chunk_status |-> "Pending",
     max_retries |-> ChunkMaxRetries, current_retry |-> 0]

NoDispatch == [job_id |-> NoJob.job_id, chunk |-> ChunkState(<<0, 0>>, 0)]

NoResult == [job_id |-> NoJob.job_id, chunk_id |-> <<0, 0>>, doc_id |-> 0]

\* the orders in which a HashMap may hand out the members of S
Orders(S) ==
    {s \in [1..Cardinality(S) -> S] :
        \A i, j \in 1..Cardinality(S) : i # j => s[i] # s[j]}

\* `a || b && c` of the filter is `a || (b && c)`
get_pending_chunks_for_doc(chunks, doc) ==
    {c \in DOMAIN chunks :
        \/ chunks[c].status = "Pending"
        \/ (chunks[c].status = "Failed" /\ chunks[c].full_doc_id = doc)}

chunk_to_chunk_state(chunks, doc) ==
    [i \in 1..Len(chunks) |-> ChunkState(chunks[i], doc)]

\* Queue::peek: the first job of `jobs` that is Pending (next_run_at, set
\* when the job was made, has always passed)
Eligible(jobs, map) ==
    {i \in 1..Len(jobs) :
        jobs[i] \in DOMAIN map /\ map[jobs[i]].job_status = "Pending"}

peek(jobs, map) ==
    IF Eligible(jobs, map) = {} THEN NoJob.job_id
    ELSE jobs[CHOOSE i \in Eligible(jobs, map) :
                 \A k \in Eligible(jobs, map) : i <= k]

\* job.chunks.iter_mut().find(|chunk| chunk.chunk_id == id) and the
\* assignment of its chunk_status
SetChunkStatus(map, job_id, chunk_id, status) ==
    IF job_id \notin DOMAIN map THEN map
    ELSE LET chunks == map[job_id].chunks
             hits == {i \in 1..Len(chunks) : chunks[i].chunk_id = chunk_id}
         IN  IF hits = {} THEN map
             ELSE LET first == CHOOSE i \in hits : \A k \in hits : i <= k
                  IN  [map EXCEPT ![job_id].chunks[first].chunk_status = status]

SetStoredStatus(chunks, c, status) ==
    IF c \in DOMAIN chunks
    THEN [chunks EXCEPT ![c].status = status]
    ELSE chunks

TickPcs == {"select", "t_reread", "t_mark", "t_status", "t_send", "t_sleep"}

\* document intake: the chunk records are written with status "Pending"
\* and Job::new(doc_id) is put on the queue
enqueue_pending_docs(d) ==
    /\ JobId(d) \notin DOMAIN qJobsMap
    /\ Len(qJobs) < QueueCapacity
    /\ textChunks' =
           [c \in DOMAIN textChunks \cup ChunksOf(d) |->
               IF c \in ChunksOf(d)
               THEN [status |-> "Pending", full_doc_id |-> d]
               ELSE textChunks[c]]
    /\ qJobs' = Append(qJobs, JobId(d))
    /\ qJobsMap' = (JobId(d) :> Job_new(d)) @@ qJobsMap
    /\ UNCHANGED <<notSch, schDocStatus, fullEntities, workCh, resultCh,
                   schPc, tickJob, tickIds, tickIdx, schResult, wkPc,
                   wkDispatch, sent>>

\* schedule_tick up to `guard.peek().cloned()`
TickPeek ==
    /\ schPc = "select"
    /\ LET id == peek(qJobs, qJobsMap)
       IN  IF id = NoJob.job_id
           THEN /\ schPc' = "t_sleep"
                /\ UNCHANGED <<qJobsMap, tickJob>>
           ELSE \E order \in Orders(get_pending_chunks_for_doc(
                                        textChunks, qJobsMap[id].doc_id)) :
                  LET job == [qJobsMap[id] EXCEPT !.chunks =
                                 chunk_to_chunk_state(order, qJobsMap[id].doc_id)]
                  IN  /\ qJobsMap' = [qJobsMap EXCEPT ![id] = job]
                      /\ tickJob' = job
                      /\ schPc' = "t_reread"
    /\ UNCHANGED <<notSch, qJobs, textChunks, schDocStatus, fullEntities,
                   workCh, resultCh, tickIds, tickIdx, schResult, wkPc,
                   wkDispatch, sent>>

\* schedule_tick: the second get_pending_chunks_for_doc, for chunk_ids
TickReread ==
    /\ schPc = "t_reread"
    /\ tickIds' = get_pending_chunks_for_doc(textChunks, tickJob.doc_id)
    /\ schPc' = "t_mark"
    /\ UNCHANGED <<notSch, qJobs, qJobsMap, textChunks, schDocStatus,
                   fullEntities, workCh, resultCh, tickJob, tickIdx,
                   schResult, wkPc, wkDispatch, sent>>

\* schedule_tick: queue.lock().await and guard.mark_processing(&job.job_id)
TickMark ==
    /\ schPc = "t_mark"
    /\ tickJob.job_id \in DOMAIN qJobsMap
    /\ qJobsMap' = [qJobsMap EXCEPT ![tickJob.job_id].job_status = "Processing"]
    /\ schPc' = "t_status"
    /\ UNCHANGED <<notSch, qJobs, textChunks, schDocStatus, fullEntities,
                   workCh, resultCh, tickJob, tickIds, tickIdx, schResult,
                   wkPc, wkDispatch, sent>>

\* schedule_tick: doc_status.get_by_id(..).await and, if the record is
\* there, status_service.mark_processing(doc_id, doc, chunk_ids).await
TickMarkStatus ==
    /\ schPc = "t_status"
    /\ schDocStatus' =
           IF tickJob.doc_id \in DOMAIN schDocStatus
           THEN [schDocStatus EXCEPT ![tickJob.doc_id] =
                    [status |-> "PROCESSING", chunks_list |-> tickIds]]
           ELSE schDocStatus
    /\ tickIdx' = 1
    /\ schPc' = IF tickJob.chunks = <<>> THEN "t_sleep" ELSE "t_send"
    /\ UNCHANGED <<notSch, qJobs, qJobsMap, textChunks, fullEntities, workCh,
                   resultCh, tickJob, tickIds, schResult, wkPc, wkDispatch,
                   sent>>

\* schedule_tick: one work_tx.send of the loop over job.chunks
TickSend ==
    /\ schPc = "t_send"
    /\ Len(workCh) < ChannelCapacity
    /\ LET chunk == tickJob.chunks[tickIdx]
       IN  /\ workCh' = Append(workCh, [job_id |-> tickJob.job_id,
                                        chunk |-> chunk])
           /\ sent' = [sent EXCEPT ![chunk.chunk_id] = @ + 1]
    /\ tickIdx' = tickIdx + 1
    /\ schPc' = IF tickIdx = Len(tickJob.chunks) THEN "t_sleep" ELSE "t_send"
    /\ UNCHANGED <<notSch, qJobs, qJobsMap, textChunks, schDocStatus,
                   fullEntities, resultCh, tickJob, tickIds, schResult, wkPc,
                   wkDispatch>>

\* schedule_tick: the sleep is over; run starts its next round
TickSleep ==
    /\ schPc = "t_sleep"
    /\ schPc' = "select"
    /\ tickJob' = NoJob
    /\ tickIds' = {}
    /\ tickIdx' = 0
    /\ UNCHANGED <<notSch, qJobs, qJobsMap, textChunks, schDocStatus,
                   fullEntities, workCh, resultCh, schResult, wkPc,
                   wkDispatch, sent>>

\* run: guard.recv() wins the select!; schedule_tick is dropped
SchRecv ==
    /\ schPc \in TickPcs
    /\ resultCh # <<>>
    /\ schResult' = Head(resultCh)
    /\ resultCh' = Tail(resultCh)
    /\ tickJob' = NoJob
    /\ tickIds' = {}
    /\ tickIdx' = 0
    /\ schPc' = "r_update"
    /\ UNCHANGED <<notSch, qJobs, qJobsMap, textChunks, schDocStatus,
                   fullEntities, workCh, wkPc, wkDispatch, sent>>

\* process_chunk_result: the ChunkState of the job is set to Success
SchUpdateChunk ==
    /\ schPc = "r_update"
    /\ qJobsMap' = SetChunkStatus(qJobsMap, schResult.job_id,
                                  schResult.chunk_id, "Success")
    /\ schPc' = "r_upsert"
    /\ UNCHANGED <<notSch, qJobs, textChunks, schDocStatus, fullEntities,
                   workCh, resultCh, tickJob, tickIds, tickIdx, schResult,
                   wkPc, wkDispatch, sent>>

\* process_chunk_result: the upserts of entities and relations, persist_all
SchUpsert ==
    /\ schPc = "r_upsert"
    /\ fullEntities' = fullEntities \cup {schResult.chunk_id}
    /\ schResult' = NoResult
    /\ schPc' = "select"
    /\ UNCHANGED <<notSch, qJobs, qJobsMap, textChunks, schDocStatus, workCh,
                   resultCh, tickJob, tickIds, tickIdx, wkPc, wkDispatch,
                   sent>>

\* worker: guard.recv() returned Some(job_dispatch)
WkRecv(w) ==
    /\ wkPc[w] = "idle"
    /\ workCh # <<>>
    /\ wkDispatch' = [wkDispatch EXCEPT ![w] = Head(workCh)]
    /\ workCh' = Tail(workCh)
    /\ wkPc' = [wkPc EXCEPT ![w] = "mark_running"]
    /\ UNCHANGED <<notSch, qJobs, qJobsMap, textChunks, schDocStatus,
                   fullEntities, resultCh, schPc, tickJob, tickIds, tickIdx,
                   schResult, sent>>

\* worker: the ChunkState of the job is set to Running
WkMarkRunning(w) ==
    /\ wkPc[w] = "mark_running"
    /\ qJobsMap' = SetChunkStatus(qJobsMap, wkDispatch[w].job_id,
                                  wkDispatch[w].chunk.chunk_id, "Running")
    /\ wkPc' = [wkPc EXCEPT ![w] = "extract"]
    /\ UNCHANGED <<notSch, qJobs, textChunks, schDocStatus, fullEntities,
                   workCh, resultCh, schPc, tickJob, tickIds, tickIdx,
                   schResult, wkDispatch, sent>>

\* worker: the extraction returned Ok; the chunk record is stored as Success
WkSucceed(w) ==
    /\ wkPc[w] = "extract"
    /\ textChunks' = SetStoredStatus(textChunks, wkDispatch[w].chunk.chunk_id,
                                     "Success")
    /\ wkPc' = [wkPc EXCEPT ![w] = "send_result"]
    /\ UNCHANGED <<notSch, qJobs, qJobsMap, schDocStatus, fullEntities,
                   workCh, resultCh, schPc, tickJob, tickIds, tickIdx,
                   schResult, wkDispatch, sent>>

\* worker: result_tx.send(JobResult)
WkSendResult(w) ==
    /\ wkPc[w] = "send_result"
    /\ Len(resultCh) < ChannelCapacity
    /\ resultCh' = Append(resultCh,
                          [job_id |-> wkDispatch[w].job_id,
                           chunk_id |-> wkDispatch[w].chunk.chunk_id,
                           doc_id |-> wkDispatch[w].chunk.doc_id])
    /\ wkDispatch' = [wkDispatch EXCEPT ![w] = NoDispatch]
    /\ wkPc' = [wkPc EXCEPT ![w] = "idle"]
    /\ UNCHANGED <<notSch, qJobs, qJobsMap, textChunks, schDocStatus,
                   fullEntities, workCh, schPc, tickJob, tickIds, tickIdx,
                   schResult, sent>>

\* worker: the extraction returned Err; the chunk record is stored as Failed
WkFail(w) ==
    /\ wkPc[w] = "extract"
    /\ sent[wkDispatch[w].chunk.chunk_id] < MaxSends
    /\ textChunks' = SetStoredStatus(textChunks, wkDispatch[w].chunk.chunk_id,
                                     "Failed")
    /\ IF wkDispatch[w].chunk.chunk_id \in DOMAIN textChunks
       THEN /\ wkPc' = [wkPc EXCEPT ![w] = "resend"]
            /\ UNCHANGED wkDispatch
       ELSE /\ wkPc' = [wkPc EXCEPT ![w] = "idle"]
            /\ wkDispatch' = [wkDispatch EXCEPT ![w] = NoDispatch]
    /\ UNCHANGED <<notSch, qJobs, qJobsMap, schDocStatus, fullEntities,
                   workCh, resultCh, schPc, tickJob, tickIds, tickIdx,
                   schResult, sent>>

\* worker: scheduler.dispatcher.work_tx.send(job_dispatch), the retry
WkResend(w) ==
    /\ wkPc[w] = "resend"
    /\ Len(workCh) < ChannelCapacity
    /\ workCh' = Append(workCh, wkDispatch[w])
    /\ sent' = [sent EXCEPT ![wkDispatch[w].chunk.chunk_id] = @ + 1]
    /\ wkDispatch' = [wkDispatch EXCEPT ![w] = NoDispatch]
    /\ wkPc' = [wkPc EXCEPT ![w] = "idle"]
    /\ UNCHANGED <<notSch, qJobs, qJobsMap, textChunks, schDocStatus,
                   fullEntities, resultCh, schPc, tickJob, tickIds, tickIdx,
                   schResult>>

SchedulerStep ==
    \/ TickPeek
    \/ TickReread
    \/ TickMark
    \/ TickMarkStatus
    \/ TickSend
    \/ TickSleep
    \/ SchRecv
    \/ SchUpdateChunk
    \/ SchUpsert

WorkerOkStep(w) ==
    \/ WkRecv(w)
    \/ WkMarkRunning(w)
    \/ WkSucceed(w)
    \/ WkSendResult(w)

\* a chunk record of the document exists and every one is stored as Success
AllChunksSuccess(d) ==
    /\ ChunksOf(d) \subseteq DOMAIN textChunks
    /\ \A c \in ChunksOf(d) : textChunks[c].status = "Success"

AllChunksFailed(d) ==
    /\ ChunksOf(d) \subseteq DOMAIN textChunks
    /\ \A c \in ChunksOf(d) : textChunks[c].status = "Failed"

\* nothing is in flight: the channels are empty, the workers wait for work
\* and the scheduler is between two rounds or asleep in its tick
Quiescent ==
    /\ workCh = <<>>
    /\ resultCh = <<>>
    /\ \A w \in Workers : wkPc[w] = "idle"
    /\ schPc \in {"select", "t_sleep"}


(***************************************************************************)
(* JsonDocStatusStorage::docs_paginated (storage/json_doc_status.rs).      *)
(* Document ids are 1..NumPgDocs and stand for strings whose order is the  *)
(* numeric one; updated_at / created_at are stamps and stand for RFC3339   *)
(* strings whose order is the numeric one.  Documents arrive in id order   *)
(* with updated_at the clock, which advances by at most one between two    *)
(* arrivals; upsert flushes, so the file holds what the map holds.         *)
(***************************************************************************)
PgIds == 1..NumPgDocs

PgAbsent == [present |-> FALSE, status |-> "", created_at |-> 0,
             updated_at |-> 0, file_path |-> ""]

\* the record a caller upserts for document id at time stamp: documents of
\* the latest instant are still PENDING, file names differ in case only
PgRecord(id, stamp) ==
    [present |-> TRUE,
     status |-> IF stamp = MaxStamp THEN "PENDING" ELSE "PROCESSED",
     created_at |-> 1,
     updated_at |-> stamp,
     file_path |-> IF id % 2 = 0 THEN "A.TXT" ELSE "a.txt"]

PgPresent(data) == {id \in PgIds : data[id].present}

\* str::to_lowercase / to_ascii_lowercase on the strings that occur
to_lowercase(s) ==
    CASE s = "A.TXT" -> "a.txt"
      [] s = "DESC" -> "desc"
      [] s = "ASC" -> "asc"
      [] OTHER -> s

\* rank of a string in the order of String::cmp
StrRank(s) ==
    CASE s = "" -> 0
      [] s = "A.TXT" -> 1
      [] s = "a.txt" -> 2
      [] OTHER -> 3

\* build_sort_key, as the rank of the key string
build_sort_key(record, id, field) ==
    CASE field = "created_at" -> record.created_at
      [] field = "updated_at" -> record.updated_at
      [] field = "file_path" -> StrRank(to_lowercase(record.file_path))
      [] field = "id" -> id
      [] OTHER -> record.updated_at

\* guard.iter(): the ids in the order the HashMap yields them, which its
\* RandomState fixes; the two seeds give ascending and descending ids
HashIter(data, seed) ==
    LET present(id) == data[id].present
    IN  SelectSeq([i \in 1..NumPgDocs |-> IF seed = 0 THEN i ELSE NumPgDocs + 1 - i],
                  present)

\* the comparator handed to sort_by: TRUE when a must come before b
PgBefore(key, descending, a, b) ==
    IF descending THEN key[b] < key[a] ELSE key[a] < key[b]

\* slice::sort_by is stable: x goes after every element it does not precede
RECURSIVE PgInsert(_, _, _, _)
PgInsert(x, sorted, key, descending) ==
    IF sorted = <<>> THEN <<x>>
    ELSE IF PgBefore(key, descending, x, Head(sorted))
         THEN <<x>> \o sorted
         ELSE <<Head(sorted)>> \o PgInsert(x, Tail(sorted), key, descending)

RECURSIVE sort_by(_, _, _)
sort_by(docs, key, descending) ==
    IF docs = <<>> THEN <<>>
    ELSE LET n == Len(docs)
         IN  PgInsert(docs[n], sort_by(SubSeq(docs, 1, n - 1), key, descending),
                      key, descending)

Clamp(x, lo, hi) == IF x < lo THEN lo ELSE IF x > hi THEN hi ELSE x

Min(a, b) == IF a < b THEN a ELSE b

\* docs_paginated with the page size taken as given
docs_paginated_unclamped(data, seed, status_filter, page0, page_size0, sort_field0, sort_direction) ==
    LET page == IF page0 < 1 THEN 1 ELSE page0
        page_size == page_size0
        sort_field == IF sort_field0 \in {"created_at", "updated_at", "id", "file_path"}
                      THEN sort_field0 ELSE "updated_at"
        descending == to_lowercase(sort_direction) = "desc"
        matches(id) == status_filter = "None" \/ data[id].status = status_filter
        docs0 == SelectSeq(HashIter(data, seed), matches)
        key == [id \in PgIds |-> build_sort_key(data[id], id, sort_field)]
        docs == sort_by(docs0, key, descending)
        total == Len(docs)
        start == (page - 1) * page_size
        end == Min(start + page_size, total)
    IN  [items |-> IF start >= total THEN <<>> ELSE SubSeq(docs, start + 1, end),
         total |-> total]

\* docs_paginated: the ids of the page, in order, and the total
docs_paginated(data, seed, status_filter, page0, page_size0, sort_field0, sort_direction) ==
    LET page == IF page0 < 1 THEN 1 ELSE page0
        page_size == Clamp(page_size0, PageSizeMin, PageSizeMax)
        sort_field == IF sort_field0 \in {"created_at", "updated_at", "id", "file_path"}
                      THEN sort_field0 ELSE "updated_at"
        descending == to_lowercase(sort_direction) = "desc"
        matches(id) == status_filter = "None" \/ data[id].status = status_filter
        docs0 == SelectSeq(HashIter(data, seed), matches)
        key == [id \in PgIds |-> build_sort_key(data[id], id, sort_field)]
        docs == sort_by(docs0, key, descending)
        total == Len(docs)
        start == (page - 1) * page_size
        end == Min(start + page_size, total)
    IN  [items |-> IF start >= total THEN <<>> ELSE SubSeq(docs, start + 1, end),
         total |-> total]

PgNoRet == [op |-> "none", status_filter |-> "None", page |-> 0, page_size |-> 0,
            sort_field |-> "", sort_direction |-> "", items |-> <<>>, total |-> 0]

PgSeeds == {0, 1}

\* the queries the callers of the model make: status filter, page size,
\* sort field and sort direction; each is asked for the pages PgPages
PgQueries == {<<"None", 2, "updated_at", "desc">>,
              <<"PROCESSED", 2, "updated_at", "desc">>,
              <<"None", NumPgDocs, "bogus", "asc">>,
              <<"None", 2, "file_path", "ASC">>,
              <<"PROCESSED", 2, "id", "DESC">>}

PgPages == 0..2

\* the stamps the clock may show when the next document arrives
PgNow == IF PgPresent(pgData) = {} THEN {1}
         ELSE LET last == pgData[Cardinality(PgPresent(pgData))].updated_at
              IN  {last, last + 1}

\* upsert of one new document, the next id, followed by its sync_if_dirty
PgUpsert(stamp) ==
    LET id == Cardinality(PgPresent(pgData)) + 1
    IN  /\ id \in PgIds
        /\ stamp \in PgNow
        /\ pgData' = [pgData EXCEPT ![id] = PgRecord(id, stamp)]
        /\ pgDisk' = pgData'
        /\ pgRet' = PgNoRet
        /\ UNCHANGED <<pgSeed, notPg>>

\* initialize: load the file into a new HashMap, which has a new RandomState
PgInitialize ==
    /\ pgData' = pgDisk
    /\ pgSeed' \in PgSeeds
    /\ UNCHANGED <<pgDisk, pgRet, notPg>>

PgDocsPaginated(q, page) ==
    LET r == docs_paginated(pgData, pgSeed, q[1], page, q[2], q[3], q[4])
    IN  /\ pgRet' = [op |-> "docs_paginated", status_filter |-> q[1],
                     page |-> page, page_size |-> q[2],
                     sort_field |-> q[3], sort_direction |-> q[4],
                     items |-> r.items, total |-> r.total]
        /\ UNCHANGED <<pgData, pgDisk, pgSeed, notPg>>

(***************************************************************************)
(* Scheduler::process_chunk_result (pipeline/scheduler.rs): what the       *)
(* scheduler writes to full_entities and full_relations when the result of *)
(* a chunk arrives.  One job, for document ErDoc, with chunks ErChunks.    *)
(* Stored records are kept without _id, create_time and update_time, which *)
(* JsonKvStorage::upsert adds to every record it stores.                   *)
(***************************************************************************)
ErChunks == 1..NumErChunks

ErDoc == 1

ExtractedEntity(name, desc) ==
    [entity_name |-> name, entity_type |-> "Concept", entity_description |-> desc]

ExtractedRelationship(source, target, desc) ==
    [source_entity |-> source, target_entity |-> target,
     relationship_description |-> desc]

EntitiesRelationships(entities, relationships) ==
    [entities |-> entities, relationships |-> relationships]

\* what the extraction of a chunk may yield: nothing; an entity and a
\* relationship to an entity the chunk does not name; both entities and the
\* relationship between them, described in other words; the same entity
\* extracted twice
Extractions ==
    {EntitiesRelationships(<<>>, <<>>),
     EntitiesRelationships(<<ExtractedEntity("A", "d1")>>,
                           <<ExtractedRelationship("A", "B", "d1")>>),
     EntitiesRelationships(<<ExtractedEntity("A", "d2"), ExtractedEntity("B", "d2")>>,
                           <<ExtractedRelationship("A", "B", "d2")>>),
     EntitiesRelationships(<<ExtractedEntity("B", "d1"), ExtractedEntity("B", "d2")>>,
                           <<>>)}

\* serde_json Null, where an entity id is expected
NullId == compute_mdhash_id(<<>>, "null")

JobResult(c, er) ==
    [entity_relationships |-> er, chunk_id |-> c, doc_id |-> ErDoc,
     chunk_order_index |-> c - 1]

EntityId(doc, entity) ==
    compute_mdhash_id(<<doc, entity.entity_name, entity.entity_type>>, "entity-")

RelationId(doc, relationship) ==
    compute_mdhash_id(<<doc, relationship.source_entity, relationship.target_entity>>,
                      "rel-")

\* index of the last element of seq that F maps to v: HashMap::insert in a
\* loop keeps the value inserted last
LastIndex(seq, F(_), v) ==
    CHOOSE i \in 1..Len(seq) :
        /\ F(seq[i]) = v
        /\ \A j \in (i + 1)..Len(seq) : F(seq[j]) # v

\* entities_to_upsert
entities_to_upsert(job_result) ==
    LET entities == job_result.entity_relationships.entities
        id(e) == EntityId(job_result.doc_id, e)
    IN  [k \in {id(entities[i]) : i \in 1..Len(entities)} |->
            LET entity == entities[LastIndex(entities, id, k)]
            IN  [entity_name |-> entity.entity_name,
                 entity_type |-> entity.entity_type,
                 entity_description |-> entity.entity_description,
                 doc_id |-> job_result.doc_id,
                 chunk_id |-> job_result.chunk_id,
                 chunk_order_index |-> job_result.chunk_order_index]]

\* entity_name_to_entity_id_mapping.get(name), None being Null in json!
entity_name_to_entity_id(job_result, name) ==
    LET entities == job_result.entity_relationships.entities
        nm(e) == e.entity_name
    IN  IF \E i \in 1..Len(entities) : entities[i].entity_name = name
        THEN EntityId(job_result.doc_id, entities[LastIndex(entities, nm, name)])
        ELSE NullId

\* relationships_to_upsert
relationships_to_upsert(job_result) ==
    LET relationships == job_result.entity_relationships.relationships
        id(r) == RelationId(job_result.doc_id, r)
    IN  [k \in {id(relationships[i]) : i \in 1..Len(relationships)} |->
            LET relationship == relationships[LastIndex(relationships, id, k)]
            IN  [source_entity_id |->
                     entity_name_to_entity_id(job_result, relationship.source_entity),
                 target_entity_id |->
                     entity_name_to_entity_id(job_result, relationship.target_entity),
                 description |-> relationship.relationship_description,
                 doc_id |-> job_result.doc_id,
                 chunk_id |-> job_result.chunk_id]]

\* JsonKvStorage::upsert: every record of the batch replaces what its key held
ErUpsert(store, batch) ==
    [k \in DOMAIN store \cup DOMAIN batch |->
        IF k \in DOMAIN batch THEN batch[k] ELSE store[k]]

\* the two stores after process_chunk_result has handled job_result
process_chunk_result(entities, relations, job_result) ==
    [entities |-> ErUpsert(entities, entities_to_upsert(job_result)),
     relations |-> ErUpsert(relations, relationships_to_upsert(job_result))]

\* result_rx.recv() hands over the result of chunk c: the chunk of the job
\* becomes Success, entities and relations are upserted
ErProcessChunkResult(c) ==
    LET job_result == JobResult(c, erResults[c])
        out == process_chunk_result(erFullEntities, erFullRelations, job_result)
    IN  /\ erChunkStatus' = [erChunkStatus EXCEPT ![c] = "Success"]
        /\ erFullEntities' = out.entities
        /\ erFullRelations' = out.relations
        /\ UNCHANGED <<erResults, notEr>>

(***************************************************************************)
(* JsonKvStorage::initialize with migrate_legacy_cache_structure           *)
(* (storage/json_kv.rs), on the store of the llm_response_cache.           *)
(* A key is the sequence of its ':'-separated segments, so                 *)
(* key.split(':').count() is its length and format!("{a}:{b}:{c}") is the  *)
(* concatenation of the segments of a, b and c.  A JSON value is an object *)
(* (a map from keys to values, a field name being a key of one segment), a *)
(* string or a number.                                                     *)
(***************************************************************************)
MgObj(m) == [kind |-> "object", map |-> m, str |-> ""]

MgStr(s) == [kind |-> "string", map |-> EmptyMap, str |-> s]

MgNum == [kind |-> "number", map |-> EmptyMap, str |-> ""]

\* cache entries: with a cache_type, without one
CacheEntry(cache_type, return) ==
    MgObj([f \in {<<"cache_type">>, <<"return">>} |->
             IF f = <<"cache_type">> THEN MgStr(cache_type) ELSE MgStr(return)])

CacheEntryNoType(return) == MgObj([f \in {<<"return">>} |-> MgStr(return)])

\* the maps a legacy file may hold under one mode
MgInner ==
    {EmptyMap,
     [h \in {<<"h1">>} |-> CacheEntry("extract", "x")],
     [h \in {<<"h1">>, <<"h2">>} |->
        IF h = <<"h1">> THEN CacheEntry("embed", "x") ELSE CacheEntryNoType("y")]}

MgModes == {<<"modeA">>, <<"modeB">>}

\* files in the nested form: some modes, each with one of the inner maps
MgLegacyFiles ==
    UNION {[S -> {MgObj(i) : i \in MgInner}] : S \in (SUBSET MgModes) \ {{}}}

\* a file in the flat form
MgFlatFile ==
    [k \in {<<"modeA", "extract", "h1">>, <<"modeA", "embed", "h2">>} |->
        IF k[3] = "h1" THEN CacheEntry("extract", "x") ELSE CacheEntry("embed", "y")]

\* a file with a flat key next to a mode, and a file of plain records
MgMixedFile ==
    [k \in {<<"modeA", "extract", "h1">>, <<"modeB">>} |->
        IF Len(k) = 3 THEN CacheEntry("extract", "x")
        ELSE MgObj([h \in {<<"h1">>} |-> CacheEntryNoType("y")])]

MgPlainFile ==
    [k \in {<<"doc-1">>} |-> MgObj([f \in {<<"content">>, <<"n">>} |->
                                      IF f = <<"content">> THEN MgStr("text") ELSE MgNum])]

MgNoFile == [exists |-> FALSE, data |-> EmptyMap]

MgFileOf(data) == [exists |-> TRUE, data |-> data]

MgFiles ==
    {MgNoFile, MgFileOf(EmptyMap), MgFileOf(MgFlatFile), MgFileOf(MgMixedFile),
     MgFileOf(MgPlainFile)} \cup {MgFileOf(d) : d \in MgLegacyFiles}

\* load_or_default: a missing (or empty) file gives the empty map
mg_load_or_default(file) == IF file.exists THEN file.data ELSE EmptyMap

is_legacy_cache_structure(inner) ==
    \A h \in DOMAIN inner :
        inner[h].kind = "object" /\ <<"return">> \in DOMAIN inner[h].map

generate_cache_key(mode, cache_type, cache_hash) ==
    mode \o <<cache_type>> \o cache_hash

\* a default of "default" for an entry without cache_type
cache_type_or_default(entry) ==
    IF <<"cache_type">> \in DOMAIN entry.map /\ entry.map[<<"cache_type">>].kind = "string"
    THEN entry.map[<<"cache_type">>].str
    ELSE "default"

\* entry_obj.get("cache_type").and_then(Value::as_str).unwrap_or("extract")
cache_type_of(entry) ==
    IF <<"cache_type">> \in DOMAIN entry.map /\ entry.map[<<"cache_type">>].kind = "string"
    THEN entry.map[<<"cache_type">>].str
    ELSE "extract"

\* the inserts of the migration loop: <<key, value, counted>>
MgInserts(data) ==
    UNION {
        IF data[k].kind = "object" /\ is_legacy_cache_structure(data[k].map)
        THEN {IF data[k].map[h].kind = "object"
              THEN <<generate_cache_key(k, cache_type_of(data[k].map[h]), h),
                     data[k].map[h], TRUE>>
              ELSE <<h, data[k].map[h], FALSE>> : h \in DOMAIN data[k].map}
        ELSE {<<k, data[k], FALSE>>} : k \in DOMAIN data}

\* the maps the inserts can leave: where two inserts have one key, the one
\* the HashMap iteration reaches last stays
MgMigrated(data) ==
    LET ins == MgInserts(data)
    IN  {m \in [{i[1] : i \in ins} -> {i[2] : i \in ins}] :
            \A k \in DOMAIN m : \E i \in ins : i[1] = k /\ i[2] = m[k]}

\* migrate_legacy_cache_structure: the possible results, `first` being the
\* key data.keys().next() yields; rewrite tells whether the file is written
migrate_legacy_cache_structure(data) ==
    IF DOMAIN data = {}
    THEN {[data |-> data, rewrite |-> FALSE]}
    ELSE UNION {
           IF Len(first) = 3
           THEN {[data |-> data, rewrite |-> FALSE]}
           ELSE {[data |-> m,
                  rewrite |-> \E i \in MgInserts(data) : i[3]] : m \in MgMigrated(data)}
           : first \in DOMAIN data}

\* Value::String(key): the string of a key
MgId(key) == [kind |-> "id", map |-> key, str |-> ""]

\* normalize_record on a value of this store
MgNormalize(key, value) ==
    LET obj == IF value.kind = "object" THEN value.map
               ELSE [f \in {<<"value">>} |-> value]
        withCt == IF <<"create_time">> \in DOMAIN obj THEN obj
                  ELSE SetField(obj, <<"create_time">>, MgNum)
        withUt == IF <<"update_time">> \in DOMAIN withCt THEN withCt
                  ELSE SetField(withCt, <<"update_time">>, MgNum)
    IN  MgObj(SetField(withUt, <<"_id">>, MgId(key)))

get_all(data) == [k \in DOMAIN data |-> MgNormalize(k, data[k])]

MgNoRet == [op |-> "none", ok |-> TRUE, all |-> EmptyMap]

\* initialize: load, migrate, write the migrated map when an entry moved,
\* install the map, clear the flag; a failing write leaves all as it was
MgInitialize ==
    \E r \in migrate_legacy_cache_structure(mg_load_or_default(mgFile)) :
        \/ /\ mgData' = r.data
           /\ mgFile' = IF r.rewrite THEN MgFileOf(r.data) ELSE mgFile
           /\ mgDirty' = FALSE
           /\ mgRet' = [op |-> "initialize", ok |-> TRUE, all |-> EmptyMap]
           /\ UNCHANGED notMg
        \/ /\ r.rewrite
           /\ mgRet' = [op |-> "initialize", ok |-> FALSE, all |-> EmptyMap]
           /\ UNCHANGED <<mgData, mgFile, mgDirty, notMg>>

MgGetAll ==
    /\ mgRet' = [op |-> "get_all", ok |-> TRUE, all |-> get_all(mgData)]
    /\ UNCHANGED <<mgData, mgFile, mgDirty, notMg>>

\* delete(&[id])
MgDelete(id) ==
    /\ mgData' = [k \in DOMAIN mgData \ {id} |-> mgData[k]]
    /\ mgDirty' = (mgDirty \/ id \in DOMAIN mgData)
    /\ mgRet' = [op |-> "delete", ok |-> TRUE, all |-> EmptyMap]
    /\ UNCHANGED <<mgFile, notMg>>

\* sync_if_dirty: the flag is taken, then the map is written; the write may
\* fail
MgSyncIfDirty ==
    \/ /\ ~mgDirty
       /\ mgRet' = [op |-> "sync_if_dirty", ok |-> TRUE, all |-> EmptyMap]
       /\ UNCHANGED <<mgData, mgFile, mgDirty, notMg>>
    \/ /\ mgDirty
       /\ mgDirty' = FALSE
       /\ \/ /\ mgFile' = MgFileOf(mgData)
             /\ mgRet' = [op |-> "sync_if_dirty", ok |-> TRUE, all |-> EmptyMap]
          \/ /\ mgFile' = mgFile
             /\ mgRet' = [op |-> "sync_if_dirty", ok |-> FALSE, all |-> EmptyMap]
       /\ UNCHANGED <<mgData, notMg>>

(***************************************************************************)
(* chunking_by_token_size without a delimiter (pipeline/utils.rs) and      *)
(* TokenizerChunker::chunk (pipeline/chunker.rs).  The document is the     *)
(* sequence of its tokens; the content of a chunk is the slice of tokens   *)
(* it was decoded from.                                                    *)
(***************************************************************************)
\* tokenizer.encode(content) of a document of len tokens, each its own
Document(len) == [i \in 1..len |-> i]

TokenChunk(tokens, content, chunk_order_index) ==
    [tokens |-> tokens, content |-> content,
     chunk_order_index |-> chunk_order_index]

\* a step of the whole window
chunk_step_no_overlap(max_token_size, overlap_token_size) == max_token_size

\* let step = max_token_size - overlap_token_size
chunk_step(max_token_size, overlap_token_size) ==
    max_token_size - overlap_token_size

\* the while loop, from `start` on; &tokens[start..end] is SubSeq(start+1, end)
RECURSIVE ChunkLoop(_, _, _, _, _)
ChunkLoop(tokens, start, step, max_token_size, results) ==
    IF ~(start < Len(tokens)) THEN results
    ELSE LET end == Min(start + max_token_size, Len(tokens))
             next == Append(results,
                            TokenChunk(end - start, SubSeq(tokens, start + 1, end),
                                       Len(results)))
         IN  IF end = Len(tokens) THEN next
             ELSE ChunkLoop(tokens, start + step, step, max_token_size, next)

chunking_by_token_size(tokens, overlap_token_size, max_token_size) ==
    IF overlap_token_size >= max_token_size
    THEN [ok |-> FALSE, chunks |-> <<>>]
    ELSE IF tokens = <<>>
    THEN [ok |-> TRUE, chunks |-> <<>>]
    ELSE [ok |-> TRUE,
          chunks |-> ChunkLoop(tokens, 0,
                               chunk_step(max_token_size, overlap_token_size),
                               max_token_size, <<>>)]

Chunk(token_chunk) ==
    [id |-> compute_mdhash_id(token_chunk.content, "chunk-"),
     content |-> token_chunk.content,
     order |-> token_chunk.chunk_order_index,
     token_count |-> token_chunk.tokens]

\* TokenizerChunker::chunk
chunk(tokens, overlap_tokens, max_tokens) ==
    IF overlap_tokens >= max_tokens
    THEN [ok |-> FALSE, chunks |-> <<>>]
    ELSE LET r == chunking_by_token_size(tokens, overlap_tokens, max_tokens)
         IN  [ok |-> r.ok,
              chunks |-> [i \in 1..Len(r.chunks) |-> Chunk(r.chunks[i])]]

CkChunk(tokens, overlap_tokens, max_tokens) ==
    /\ ckArgs' = [tokens |-> tokens, overlap_tokens |-> overlap_tokens,
                  max_tokens |-> max_tokens]
    /\ ckRet' = [op |-> "chunk",
                 ok |-> chunk(tokens, overlap_tokens, max_tokens).ok,
                 chunks |-> chunk(tokens, overlap_tokens, max_tokens).chunks]
    /\ UNCHANGED notCk

(***************************************************************************)
(* Pipeline::process_queue (pipeline/pipeline.rs) and Scheduler::run       *)
(* (pipeline/scheduler.rs) as their callers go through them: which task    *)
(* holds which mutex, and which part of the loop it is in.                 *)
(***************************************************************************)
PqCallers == 1..NumCallers

\* the runners are numbered after the callers, so a holder names one task
Runners == (NumCallers + 1)..(NumCallers + NumRunners)

\* process_queue is called; the task waits in processing_lock.lock().await
PqCall(t) ==
    /\ pqPc[t] = "idle"
    /\ pqPc' = [pqPc EXCEPT ![t] = "lock"]
    /\ UNCHANGED <<runPc, processing_lock, result_rx, notMl>>

\* the lock is free: `_guard` is held from here to the return
PqAcquire(t) ==
    /\ pqPc[t] = "lock"
    /\ processing_lock = 0
    /\ processing_lock' = t
    /\ pqPc' = [pqPc EXCEPT ![t] = "docs_by_status"]
    /\ UNCHANGED <<runPc, result_rx, notMl>>

\* docs_by_status(PENDING): an error or an empty map returns (and drops
\* `_guard`), else the loop over the documents starts
PqDocsByStatus(t) ==
    /\ pqPc[t] = "docs_by_status"
    /\ \/ /\ pqPc' = [pqPc EXCEPT ![t] = "idle"]
          /\ processing_lock' = 0
       \/ /\ pqPc' = [pqPc EXCEPT ![t] = "process_document"]
          /\ UNCHANGED processing_lock
    /\ UNCHANGED <<runPc, result_rx, notMl>>

\* process_document of one pending document (and mark_failed on its
\* error); another document follows or the loop ends
PqProcessDocument(t) ==
    /\ pqPc[t] = "process_document"
    /\ \/ pqPc' = pqPc
       \/ pqPc' = [pqPc EXCEPT ![t] = "persist_all"]
    /\ UNCHANGED <<runPc, processing_lock, result_rx, notMl>>

\* persist_all, then the return drops `_guard`
PqPersistAll(t) ==
    /\ pqPc[t] = "persist_all"
    /\ pqPc' = [pqPc EXCEPT ![t] = "idle"]
    /\ processing_lock' = 0
    /\ UNCHANGED <<runPc, result_rx, notMl>>

\* run is called; the first round of the loop waits in result_rx.lock().await
RunCall(r) ==
    /\ runPc[r] = "idle"
    /\ runPc' = [runPc EXCEPT ![r] = "lock"]
    /\ UNCHANGED <<pqPc, processing_lock, result_rx, notMl>>

\* the guard of result_rx is taken, at the first round or a later one;
\* processing_lock is not looked at
RunLock(r) ==
    /\ runPc[r] \in {"lock", "relock"}
    /\ result_rx = 0
    /\ result_rx' = r
    /\ runPc' = [runPc EXCEPT ![r] = "select"]
    /\ UNCHANGED <<pqPc, processing_lock, notMl>>

\* select!: schedule_tick ran to its end (it dispatched the chunks of a job
\* or found none); the guard is dropped and the next round starts
RunTick(r) ==
    /\ runPc[r] = "select"
    /\ result_rx' = 0
    /\ runPc' = [runPc EXCEPT ![r] = "relock"]
    /\ UNCHANGED <<pqPc, processing_lock, notMl>>

\* select!: guard.recv() returned a result
RunRecv(r) ==
    /\ runPc[r] = "select"
    /\ runPc' = [runPc EXCEPT ![r] = "process_chunk_result"]
    /\ UNCHANGED <<pqPc, processing_lock, result_rx, notMl>>

\* process_chunk_result(..).await?: Ok goes to the next round, Err returns
RunProcessChunkResult(r) ==
    /\ runPc[r] = "process_chunk_result"
    /\ result_rx' = 0
    /\ \/ runPc' = [runPc EXCEPT ![r] = "relock"]
       \/ runPc' = [runPc EXCEPT ![r] = "idle"]
    /\ UNCHANGED <<pqPc, processing_lock, notMl>>

\* ---------------------------------------------------------------------
\* The LLM client: ResponsesClient::responses_structured and
\* poll_oai_response (ai/responses.rs).  One call: a create POST in a for
\* loop of MaxAttempts rounds, then polling GETs until the background
\* response is final.  The lengths of the sleeps are left out; what is kept
\* is the order of the requests and what ends the call.
\* ---------------------------------------------------------------------

\* what a request can come back with: an HTTP response with a status and,
\* for a poll, the "status" field of its payload; a network error; the
\* timeout of the request
Response(status, body) == [kind |-> "response", status |-> status, body |-> body]

NetworkError == [kind |-> "network", status |-> 0, body |-> ""]

RequestTimeout == [kind |-> "timeout", status |-> 0, body |-> ""]

NoReply == [kind |-> "none", status |-> 0, body |-> ""]

PostReplies ==
    {Response(s, "") : s \in {200, 400, 404, 429, 500, 503}}
        \cup {NetworkError, RequestTimeout}

PollReplies ==
    {Response(200, b) : b \in {"queued", "in_progress", "completed", "failed", "cancelled"}}
        \cup {Response(s, "") : s \in {404, 429, 500}}
        \cup {NetworkError, RequestTimeout}

\* StatusCode::is_success, StatusCode::is_server_error, TOO_MANY_REQUESTS
is_success(status) == status >= 200 /\ status <= 299

is_server_error(status) == status >= 500 /\ status <= 599

TOO_MANY_REQUESTS == 429

Transient(status) == status = TOO_MANY_REQUESTS \/ is_server_error(status)

\* responses_structured is called
LlCall ==
    /\ llPc = "idle"
    /\ llPc' = "post"
    /\ llAttempt' = 0
    /\ UNCHANGED <<llPosts, llGets, llLast, llRet>>
    /\ UNCHANGED notLl

\* one round of `for attempt in 0..5`: post_json(...).await? and the
\* branches on the status of the response
LlPost(reply) ==
    /\ llPc = "post"
    /\ llAttempt < MaxAttempts
    /\ llPosts' = llPosts + 1
    /\ llLast' = reply
    /\ IF reply.kind # "response"
         THEN llPc' = "done" /\ llRet' = "request error"
         ELSE IF is_success(reply.status)
           THEN llPc' = "poll" /\ llRet' = llRet
           ELSE IF Transient(reply.status) /\ llAttempt < MaxAttempts - 1
             THEN llPc' = "sleep" /\ llRet' = llRet
             ELSE llPc' = "done" /\ llRet' = "OpenAI error"
    /\ UNCHANGED <<llAttempt, llGets>>
    /\ UNCHANGED notLl

\* sleep(delay).await; continue.  A round sleeps only when attempt < 4, so
\* the loop never runs out: every round returns or continues, and the line
\* after the loop, Err("Retries exhausted"), is not reached.
LlSleep ==
    /\ llPc = "sleep"
    /\ llAttempt' = llAttempt + 1
    /\ llPc' = "post"
    /\ UNCHANGED <<llPosts, llGets, llLast, llRet>>
    /\ UNCHANGED notLl

\* one round of the loop of poll_oai_response: the GET and the match on
\* its outcome
LlPoll(reply) ==
    /\ llPc = "poll"
    /\ llGets < MaxPolls
    /\ llGets' = llGets + 1
    /\ llLast' = reply
    /\ IF reply.kind = "response" /\ is_success(reply.status)
         THEN IF reply.body = "completed"
                THEN llPc' = "done" /\ llRet' = "Ok"
                ELSE IF reply.body \in {"failed", "cancelled"}
                  THEN llPc' = "done" /\ llRet' = "Error polling"
                  ELSE llPc' = "poll_sleep" /\ llRet' = llRet
         ELSE IF reply.kind = "response" /\ ~Transient(reply.status)
           THEN llPc' = "done" /\ llRet' = "Error polling"
           ELSE llPc' = "poll_sleep" /\ llRet' = llRet
    /\ UNCHANGED <<llAttempt, llPosts>>
    /\ UNCHANGED notLl

\* sleep(delay + jitter).await at the end of a round
LlPollSleep ==
    /\ llPc = "poll_sleep"
    /\ llPc' = "poll"
    /\ UNCHANGED <<llAttempt, llPosts, llGets, llLast, llRet>>
    /\ UNCHANGED notLl

\* timeout(overall_timeout, ...) expires while the loop is polling
LlPollTimeout ==
    /\ llPc \in {"poll", "poll_sleep"}
    /\ llPc' = "done"
    /\ llRet' = "Error polling"
    /\ UNCHANGED <<llAttempt, llPosts, llGets, llLast>>
    /\ UNCHANGED notLl

\* ---------------------------------------------------------------------
\* DocumentManager::move_to_enqueued and unique_filename
\* (pipeline/document_manager.rs), called by enqueue_file for the file an
\* upload has written (routes/documents.rs).  The uploads are tasks of the
\* server that run at the same time.  A file name is its stem, a sequence
\* of pieces, and its extension; a directory is a function from the names
\* of its files to their bytes.  The bytes of an upload are its number.
\* ---------------------------------------------------------------------
Movers == 1..NumMovers

FileName(stem, ext) == [stem |-> stem, ext |-> ext]

NoName == FileName(<<>>, "")

\* names of uploaded files: "a.txt", "a_1.txt" and "a"
QrNames ==
    {FileName(<<"a">>, "txt"), FileName(<<"a", "_", "1">>, "txt"),
     FileName(<<"a">>, "")}

\* counter.to_string()
Decimal(counter) == <<"1", "2", "3", "4", "5", "6", "7", "8", "9">>[counter]

\* format!("{}_{}.{}", stem, counter, ext), or format!("{}_{}", stem,
\* counter) when ext is empty: the extension stays where it was
candidate_name(stem, ext, counter) ==
    FileName(stem \o <<"_", Decimal(counter)>>, ext)

RECURSIVE candidate_loop(_, _, _)
candidate_loop(dir, original, counter) ==
    IF candidate_name(original.stem, original.ext, counter) \notin DOMAIN dir
    THEN candidate_name(original.stem, original.ext, counter)
    ELSE candidate_loop(dir, original, counter + 1)

\* unique_filename(dir, file_path): the name of the file if no file of
\* dir has it, else the first candidate that no file of dir has
unique_name(dir, original) ==
    IF original \notin DOMAIN dir THEN original
    ELSE candidate_loop(dir, original, 1)

QrGoto(m, pc) == qrPc' = [qrPc EXCEPT ![m] = pc]

\* an upload of a file with this name arrives
QrReceive(m, name) ==
    /\ qrPc[m] = "idle"
    /\ qrName' = [qrName EXCEPT ![m] = name]
    /\ QrGoto(m, "check_file")
    /\ UNCHANGED <<qrInput, qrEnq, qrTarget, qrRes>>
    /\ UNCHANGED notQr

\* if file_path.exists() { return duplicated }
QrCheckFile(m) ==
    /\ qrPc[m] = "check_file"
    /\ IF qrName[m] \in DOMAIN qrInput
       THEN QrGoto(m, "done") /\ qrRes' = [qrRes EXCEPT ![m] = "duplicated"]
       ELSE QrGoto(m, "write") /\ qrRes' = qrRes
    /\ UNCHANGED <<qrInput, qrEnq, qrName, qrTarget>>
    /\ UNCHANGED notQr

\* fs::write(file_path, file_bytes)
QrWrite(m) ==
    /\ qrPc[m] = "write"
    /\ qrInput' = (qrName[m] :> m) @@ qrInput
    /\ QrGoto(m, "unique_filename")
    /\ UNCHANGED <<qrEnq, qrName, qrTarget, qrRes>>
    /\ UNCHANGED notQr

\* move_to_enqueued up to `let target = enqueued_dir.join(&unique_name)`
QrUniqueFilename(m) ==
    /\ qrPc[m] = "unique_filename"
    /\ qrTarget' = [qrTarget EXCEPT ![m] = unique_name(qrEnq, qrName[m])]
    /\ QrGoto(m, "rename")
    /\ UNCHANGED <<qrInput, qrEnq, qrName, qrRes>>
    /\ UNCHANGED notQr

\* file_repo.rename(file_path, &target).await?: the file takes the place
\* of a file at target; the call fails when there is no file at file_path
QrRename(m) ==
    /\ qrPc[m] = "rename"
    /\ IF qrName[m] \in DOMAIN qrInput
       THEN /\ qrEnq' = (qrTarget[m] :> qrInput[qrName[m]]) @@ qrEnq
            /\ qrInput' = Without(qrInput, qrName[m])
            /\ qrRes' = [qrRes EXCEPT ![m] = "Ok"]
       ELSE /\ UNCHANGED <<qrInput, qrEnq>>
            /\ qrRes' = [qrRes EXCEPT ![m] = "Err"]
    /\ QrGoto(m, "done")
    /\ UNCHANGED <<qrName, qrTarget>>
    /\ UNCHANGED notQr

(***************************************************************************)
(* One job with several chunks between schedule_tick and the worker pool   *)
(* (pipeline/scheduler.rs), over channels of DpCapacity messages.  The     *)
(* document of the job is DpDoc; chunk i carries chunk_order_index i - 1.  *)
(***************************************************************************)
DpDoc == 1

DpChunkIds == 1..NumDpChunks

DpWorkers == 1..NumDpWorkers

DpTickPcs == {"select", "t_mark", "t_send", "t_sleep"}

DpRecord(status, i) ==
    [status |-> status, full_doc_id |-> DpDoc, chunk_order_index |-> i - 1]

\* schedule_tick up to `guard.peek().cloned()`: job.chunks is the selection
\* in the order the HashMap of get_pending_chunks_for_doc hands it out
DpPeek ==
    /\ dpPc = "select"
    /\ IF dpJobStatus = "Pending"
       THEN \E order \in Orders(get_pending_chunks_for_doc(dpChunks, DpDoc)) :
              /\ dpTickChunks' = order
              /\ dpPc' = "t_mark"
       ELSE /\ dpPc' = "t_sleep"
            /\ UNCHANGED dpTickChunks
    /\ UNCHANGED <<notDp, dpChunks, dpJobStatus, dpIdx, dpWorkCh, dpResultCh,
                   dpWkPc, dpWkChunk>>

\* schedule_tick: mark_processing of the job and of its document
DpMark ==
    /\ dpPc = "t_mark"
    /\ dpJobStatus' = "Processing"
    /\ dpIdx' = 1
    /\ dpPc' = IF dpTickChunks = <<>> THEN "t_sleep" ELSE "t_send"
    /\ UNCHANGED <<notDp, dpChunks, dpTickChunks, dpWorkCh, dpResultCh,
                   dpWkPc, dpWkChunk>>

\* schedule_tick: one work_tx.send of the loop over job.chunks, which waits
\* while the channel is full
DpSend ==
    /\ dpPc = "t_send"
    /\ Len(dpWorkCh) < DpCapacity
    /\ dpWorkCh' = Append(dpWorkCh, dpTickChunks[dpIdx])
    /\ dpIdx' = dpIdx + 1
    /\ dpPc' = IF dpIdx = Len(dpTickChunks) THEN "t_sleep" ELSE "t_send"
    /\ UNCHANGED <<notDp, dpChunks, dpJobStatus, dpTickChunks, dpResultCh,
                   dpWkPc, dpWkChunk>>

\* schedule_tick: the sleep is over; run starts its next round
DpSleep ==
    /\ dpPc = "t_sleep"
    /\ dpPc' = "select"
    /\ dpTickChunks' = <<>>
    /\ dpIdx' = 0
    /\ UNCHANGED <<notDp, dpChunks, dpJobStatus, dpWorkCh, dpResultCh, dpWkPc,
                   dpWkChunk>>

\* run: guard.recv() wins the select!; schedule_tick is dropped where it is
DpRecv ==
    /\ dpPc \in DpTickPcs
    /\ dpResultCh # <<>>
    /\ dpResultCh' = Tail(dpResultCh)
    /\ dpTickChunks' = <<>>
    /\ dpIdx' = 0
    /\ dpPc' = "r_process"
    /\ UNCHANGED <<notDp, dpChunks, dpJobStatus, dpWorkCh, dpWkPc, dpWkChunk>>

\* run: process_chunk_result returned
DpProcessChunkResult ==
    /\ dpPc = "r_process"
    /\ dpPc' = "select"
    /\ UNCHANGED <<notDp, dpChunks, dpJobStatus, dpTickChunks, dpIdx, dpWorkCh,
                   dpResultCh, dpWkPc, dpWkChunk>>

\* worker: guard.recv() returned Some(job_dispatch)
DpWkRecv(w) ==
    /\ dpWkPc[w] = "idle"
    /\ dpWorkCh # <<>>
    /\ dpWkChunk' = [dpWkChunk EXCEPT ![w] = Head(dpWorkCh)]
    /\ dpWorkCh' = Tail(dpWorkCh)
    /\ dpWkPc' = [dpWkPc EXCEPT ![w] = "extract"]
    /\ UNCHANGED <<notDp, dpChunks, dpJobStatus, dpPc, dpTickChunks, dpIdx,
                   dpResultCh>>

\* worker: the extraction returned Ok; the chunk record is stored as Success
DpWkSucceed(w) ==
    /\ dpWkPc[w] = "extract"
    /\ dpChunks' = [dpChunks EXCEPT ![dpWkChunk[w]].status = "Success"]
    /\ dpWkPc' = [dpWkPc EXCEPT ![w] = "send_result"]
    /\ UNCHANGED <<notDp, dpJobStatus, dpPc, dpTickChunks, dpIdx, dpWorkCh,
                   dpResultCh, dpWkChunk>>

\* worker: result_tx.send(JobResult)
DpWkSendResult(w) ==
    /\ dpWkPc[w] = "send_result"
    /\ Len(dpResultCh) < DpCapacity
    /\ dpResultCh' = Append(dpResultCh, dpWkChunk[w])
    /\ dpWkChunk' = [dpWkChunk EXCEPT ![w] = 0]
    /\ dpWkPc' = [dpWkPc EXCEPT ![w] = "idle"]
    /\ UNCHANGED <<notDp, dpChunks, dpJobStatus, dpPc, dpTickChunks, dpIdx,
                   dpWorkCh>>

\* worker: the extraction returned Err; the chunk record is stored as Failed
DpWkFail(w) ==
    /\ dpWkPc[w] = "extract"
    /\ dpChunks' = [dpChunks EXCEPT ![dpWkChunk[w]].status = "Failed"]
    /\ dpWkPc' = [dpWkPc EXCEPT ![w] = "resend"]
    /\ UNCHANGED <<notDp, dpJobStatus, dpPc, dpTickChunks, dpIdx, dpWorkCh,
                   dpResultCh, dpWkChunk>>

\* worker: scheduler.dispatcher.work_tx.send(job_dispatch), the retry, which
\* waits while the channel is full
DpWkResend(w) ==
    /\ dpWkPc[w] = "resend"
    /\ Len(dpWorkCh) < DpCapacity
    /\ dpWorkCh' = Append(dpWorkCh, dpWkChunk[w])
    /\ dpWkChunk' = [dpWkChunk EXCEPT ![w] = 0]
    /\ dpWkPc' = [dpWkPc EXCEPT ![w] = "idle"]
    /\ UNCHANGED <<notDp, dpChunks, dpJobStatus, dpPc, dpTickChunks, dpIdx,
                   dpResultCh>>

\* ---------------------------------------------------------------------
\* The success branch of a worker (pipeline/scheduler.rs, spawn_pool): the
\* chunk record gets status "Success" by upsert, sync_if_dirty writes the
\* store, the JobResult is sent; the scheduler receives it.  sync_if_dirty
\* (storage/json_kv.rs) is followed step by step: the swap of the dirty
\* flag, the snapshot, the write of the file.  Worker w holds chunk w.  The
\* scheduler, task 0, runs sync_if_dirty on text_chunks in its
\* persist_all.  An upsert of the JSON store cannot fail; a write can.
\* ---------------------------------------------------------------------
DuWorkers == 1..NumDuWorkers

DuScheduler == 0

DuTasks == DuWorkers \cup {DuScheduler}

\* after sync_if_dirty: a worker goes on to send, the scheduler is done
DuAfterSync(t) == IF t = DuScheduler THEN "idle" ELSE "send"

\* chunk_record["status"] = "Success"; text_chunks.upsert(update)
DuUpsert(w) ==
    /\ duPc[w] = "extracted"
    /\ duData' = [duData EXCEPT ![w] = "Success"]
    /\ duDirty' = TRUE
    /\ duPc' = [duPc EXCEPT ![w] = "swap"]
    /\ UNCHANGED <<duDisk, duSnap, duChan, duReceived>>
    /\ UNCHANGED notDu

\* the scheduler comes to text_chunks.sync_if_dirty() in persist_all
DuPersistAll ==
    /\ duPc[DuScheduler] = "idle"
    /\ duPc' = [duPc EXCEPT ![DuScheduler] = "swap"]
    /\ UNCHANGED <<duData, duDirty, duDisk, duSnap, duChan, duReceived>>
    /\ UNCHANGED notDu

\* sync_if_dirty: if !self.dirty.swap(false) { return Ok(()) }
DuSwap(t) ==
    /\ duPc[t] = "swap"
    /\ duDirty' = FALSE
    /\ duPc' = [duPc EXCEPT ![t] = IF duDirty THEN "snapshot" ELSE DuAfterSync(t)]
    /\ UNCHANGED <<duData, duDisk, duSnap, duChan, duReceived>>
    /\ UNCHANGED notDu

\* sync_if_dirty: the clone of the map under the read lock
DuSnapshot(t) ==
    /\ duPc[t] = "snapshot"
    /\ duSnap' = [duSnap EXCEPT ![t] = duData]
    /\ duPc' = [duPc EXCEPT ![t] = "write"]
    /\ UNCHANGED <<duData, duDirty, duDisk, duChan, duReceived>>
    /\ UNCHANGED notDu

\* sync_if_dirty: write_json_file; the worker logs an error and goes on
DuWrite(t, ok) ==
    /\ duPc[t] = "write"
    /\ duDisk' = IF ok THEN duSnap[t] ELSE duDisk
    /\ duPc' = [duPc EXCEPT ![t] = DuAfterSync(t)]
    /\ UNCHANGED <<duData, duDirty, duSnap, duChan, duReceived>>
    /\ UNCHANGED notDu

\* result_tx.send(JobResult { chunk_id, .. })
DuSend(w) ==
    /\ duPc[w] = "send"
    /\ duChan' = duChan \cup {w}
    /\ duPc' = [duPc EXCEPT ![w] = "done"]
    /\ UNCHANGED <<duData, duDirty, duDisk, duSnap, duReceived>>
    /\ UNCHANGED notDu

\* the scheduler's select! receives the result of chunk c
DuRecv(c) ==
    /\ c \in duChan
    /\ duPc[DuScheduler] = "idle"
    /\ duChan' = duChan \ {c}
    /\ duReceived' = duReceived \cup {c}
    /\ UNCHANGED <<duData, duDirty, duDisk, duPc, duSnap>>
    /\ UNCHANGED notDu

\* ---------------------------------------------------------------------
\* StorageManager::finalize_all (storage/manager.rs) and
\* Pipeline::persist_all (pipeline/pipeline.rs): the stores are visited one
\* after the other, in the order of registration (for persist_all the order
\* of its lines), and sync_if_dirty runs on each; `?` returns the first
\* error.  Stores are numbered in that order.
\* ---------------------------------------------------------------------
Stores == 1..NumStores

\* an upsert on a store before the call: it sets the dirty flag
FzUpsert(s) ==
    /\ fzOp = "none"
    /\ ~fzDirty[s]
    /\ fzDirty' = [fzDirty EXCEPT ![s] = TRUE]
    /\ UNCHANGED <<fzFlush, fzOp, fzNext, fzRet>>
    /\ UNCHANGED notFz

\* finalize_all or persist_all is called
FzCall(op) ==
    /\ fzOp = "none"
    /\ fzOp' = op
    /\ fzNext' = 1
    /\ UNCHANGED <<fzDirty, fzFlush, fzRet>>
    /\ UNCHANGED notFz

\* storage.finalize().await? on the store visited: sync_if_dirty takes the
\* flag; if it was set the snapshot is written, and a write that fails
\* ends the call
FzSyncIfDirty(ok) ==
    /\ fzOp # "none"
    /\ fzRet = "none"
    /\ fzNext \in Stores
    /\ fzDirty' = [fzDirty EXCEPT ![fzNext] = FALSE]
    /\ IF ~fzDirty[fzNext]
       THEN /\ ok
            /\ fzNext' = fzNext + 1
            /\ UNCHANGED <<fzFlush, fzRet>>
       ELSE IF ok
         THEN /\ fzFlush' = [fzFlush EXCEPT ![fzNext] = "written"]
              /\ fzNext' = fzNext + 1
              /\ fzRet' = fzRet
         ELSE /\ fzFlush' = [fzFlush EXCEPT ![fzNext] = "failed"]
              /\ fzRet' = "Err"
              /\ fzNext' = fzNext
    /\ UNCHANGED fzOp
    /\ UNCHANGED notFz

\* the loop is over: Ok(())
FzReturn ==
    /\ fzOp # "none"
    /\ fzRet = "none"
    /\ fzNext = NumStores + 1
    /\ fzRet' = "Ok"
    /\ UNCHANGED <<fzDirty, fzFlush, fzOp, fzNext>>
    /\ UNCHANGED notFz

\* ---------------------------------------------------------------------
\* Pipeline::process_document and the handling of its error in
\* process_queue (pipeline/pipeline.rs), for one PENDING document.  The
\* full_docs record is missing, or has no `content` field, or holds a
\* content of some tokens.  No storage call fails.
\* ---------------------------------------------------------------------
MissingDoc == [present |-> FALSE, has_content |-> FALSE, content |-> <<>>]

NoContentDoc == [present |-> TRUE, has_content |-> FALSE, content |-> <<>>]

ContentDoc(len) == [present |-> TRUE, has_content |-> TRUE, content |-> Document(len)]

PdDocs == {MissingDoc, NoContentDoc} \cup {ContentDoc(len) : len \in 0..MaxTokens}

\* the id of the document that is processed
PdDocId == compute_mdhash_id(<<1>>, "doc-")

\* documents of up to MaxTokens tokens out of NumTokenKinds
PdRepeatingDocs ==
    {[present |-> TRUE, has_content |-> TRUE, content |-> tokens] :
        tokens \in UNION {[1..len -> 1..NumTokenKinds] : len \in 0..MaxTokens}}

PdStatusRecord(status, chunks, error_msg) ==
    [status |-> status, chunks_list |-> chunks, error_msg |-> error_msg]

\* process_queue calls process_document(doc_id, status)
PdProcessDocument(doc, max_tokens, overlap_tokens) ==
    /\ pdPc = "idle"
    /\ pdDoc' = doc
    /\ pdCfg' = [max_tokens |-> max_tokens, overlap_tokens |-> overlap_tokens]
    /\ pdPc' = "get_content"
    /\ UNCHANGED <<pdChunks, pdErr, pdStatus, pdStore>>
    /\ UNCHANGED notPd

\* full_docs.get_by_id(doc_id) and content_value.get("content")
PdGetContent ==
    /\ pdPc = "get_content"
    /\ IF ~pdDoc.present
       THEN pdErr' = "document content missing" /\ pdPc' = "failed"
       ELSE IF ~pdDoc.has_content
         THEN pdErr' = "document content field missing" /\ pdPc' = "failed"
         ELSE pdErr' = pdErr /\ pdPc' = "chunk"
    /\ UNCHANGED <<pdDoc, pdCfg, pdChunks, pdStatus, pdStore>>
    /\ UNCHANGED notPd

\* self.chunker.chunk(content, &chunk_config)?
PdChunk ==
    /\ pdPc = "chunk"
    /\ LET r == chunk(pdDoc.content, pdCfg.overlap_tokens, pdCfg.max_tokens)
       IN  IF r.ok
           THEN pdChunks' = r.chunks /\ pdErr' = pdErr /\ pdPc' = "extract"
           ELSE pdChunks' = pdChunks /\ pdErr' = "chunker error" /\ pdPc' = "failed"
    /\ UNCHANGED <<pdDoc, pdCfg, pdStatus, pdStore>>
    /\ UNCHANGED notPd

\* the extraction of every chunk, try_collect; with no chunk there is no
\* call that could fail; `if chunks.is_empty() { warn!(..) }` goes on
PdExtract(ok) ==
    /\ pdPc = "extract"
    /\ pdChunks = <<>> => ok
    /\ IF ok
       THEN pdErr' = pdErr /\ pdPc' = "mark_processing"
       ELSE pdErr' = "extraction error" /\ pdPc' = "failed"
    /\ UNCHANGED <<pdDoc, pdCfg, pdChunks, pdStatus, pdStore>>
    /\ UNCHANGED notPd

\* status_service.mark_processing(doc_id, status, &chunk_ids)
PdMarkProcessing ==
    /\ pdPc = "mark_processing"
    /\ pdStatus' = PdStatusRecord("PROCESSING", Len(pdChunks), "none")
    /\ pdPc' = "store"
    /\ UNCHANGED <<pdDoc, pdCfg, pdChunks, pdErr, pdStore>>
    /\ UNCHANGED notPd

\* the object process_document stores for a chunk
ChunkRecord(c) ==
    [content |-> c.content, full_doc_id |-> PdDocId,
     chunk_order_index |-> c.order, tokens |-> c.token_count]

\* chunks.iter().map(|chunk| (chunk.id.clone(), obj)).collect() into a
\* HashMap: of two chunks with one id the later one stays
chunk_map(chunks) ==
    [id \in {chunks[i].id : i \in 1..Len(chunks)} |->
        LET last == CHOOSE i \in 1..Len(chunks) :
                        /\ chunks[i].id = id
                        /\ \A k \in 1..Len(chunks) : chunks[k].id = id => k <= i
        IN  ChunkRecord(chunks[last])]

\* the upserts of chunks, entities and relations, and persist_all
PdStore ==
    /\ pdPc = "store"
    /\ pdStore' = chunk_map(pdChunks) @@ pdStore
    /\ pdPc' = "mark_processed"
    /\ UNCHANGED <<pdDoc, pdCfg, pdChunks, pdErr, pdStatus>>
    /\ UNCHANGED notPd

\* status_service.mark_processed(doc_id, status, &chunk_ids); Ok(())
PdMarkProcessed ==
    /\ pdPc = "mark_processed"
    /\ pdStatus' = PdStatusRecord("PROCESSED", Len(pdChunks), "none")
    /\ pdPc' = "done"
    /\ UNCHANGED <<pdDoc, pdCfg, pdChunks, pdErr, pdStore>>
    /\ UNCHANGED notPd

\* process_queue: status_service.mark_failed(&doc_id, &status, &err)
PdMarkFailed ==
    /\ pdPc = "failed"
    /\ pdStatus' = PdStatusRecord("FAILED", 0, pdErr)
    /\ pdPc' = "done"
    /\ UNCHANGED <<pdDoc, pdCfg, pdChunks, pdErr, pdStore>>
    /\ UNCHANGED notPd

\* ---------------------------------------------------------------------
\* The job queue of the scheduler (pipeline/scheduler.rs, struct Queue) as
\* a data structure: `jobs`, a FIFO of job ids, and `jobs_map`, the jobs
\* by id.  A job is its id, its status, its retry counter and next_run_at,
\* an instant of the monotonic clock.
\* ---------------------------------------------------------------------
QuIds == 1..NumQuJobs

QuNone == [job_id |-> 0, job_status |-> "none", current_retry |-> 0, next_run_at |-> 0]

QuNoRet == [op |-> "none", ok |-> TRUE, job |-> QuNone, err |-> ""]

QuReturn(op, ok, job) == [op |-> op, ok |-> ok, job |-> job, err |-> ""]

QuError(op, err) == [op |-> op, ok |-> FALSE, job |-> QuNone, err |-> err]

\* Job::new: status Pending, current_retry 0, next_run_at Instant::now()
QuJob_new(id, now) ==
    [job_id |-> id, job_status |-> "Pending", current_retry |-> 0, next_run_at |-> now]

QuContains(jobs, id) == \E i \in 1..Len(jobs) : jobs[i] = id

\* an enqueue without the capacity test
enqueue_ok_without_capacity(jobs, map, id) ==
    ~(QuContains(jobs, id) /\ id \notin DOMAIN map)

\* Queue::enqueue: the error of its first test needs an id that is in the
\* FIFO and not in the map; an id that is in both is pushed once more
enqueue_ok(jobs, map, id) ==
    /\ ~(QuContains(jobs, id) /\ id \notin DOMAIN map)
    /\ Len(jobs) < QuCapacity

\* the error Queue::enqueue returns; "" when it returns Ok
enqueue_error(jobs, map, id) ==
    IF QuContains(jobs, id) /\ id \notin DOMAIN map THEN "Job already exists"
    ELSE IF Len(jobs) >= QuCapacity THEN "Capacity reached"
    ELSE ""

\* a closure that looks at next_run_at only
eligible_whatever_status(map, id, now) ==
    IF id \in DOMAIN map THEN map[id].next_run_at <= now ELSE FALSE

\* the closure of Queue::peek
eligible(map, id, now) ==
    IF id \in DOMAIN map
    THEN map[id].next_run_at <= now /\ map[id].job_status = "Pending"
    ELSE FALSE

\* self.jobs.iter().find(...): the ids are tried from the front
RECURSIVE find_eligible(_, _, _)
find_eligible(jobs, map, now) ==
    IF jobs = <<>> THEN 0
    ELSE IF eligible(map, Head(jobs), now) THEN Head(jobs)
    ELSE find_eligible(Tail(jobs), map, now)

\* Queue::peek: None (QuNone) or the job of the id found
Queue_peek(jobs, map, now) ==
    IF find_eligible(jobs, map, now) = 0 THEN QuNone
    ELSE map[find_eligible(jobs, map, now)]

\* a job is made and Queue::enqueue is called with it
QuEnqueue(id) ==
    /\ IF enqueue_ok(quJobs, quMap, id)
       THEN /\ quJobs' = Append(quJobs, id)
            /\ quMap' = (id :> QuJob_new(id, quNow)) @@ quMap
            /\ quRet' = QuReturn("enqueue", TRUE, QuNone)
       ELSE /\ UNCHANGED <<quJobs, quMap>>
            /\ quRet' = QuError("enqueue", enqueue_error(quJobs, quMap, id))
    /\ UNCHANGED quNow
    /\ UNCHANGED notQu

\* Queue::dequeue
QuDequeue ==
    /\ IF quJobs = <<>>
       THEN /\ UNCHANGED <<quJobs, quMap>>
            /\ quRet' = QuReturn("dequeue", TRUE, QuNone)
       ELSE /\ quJobs' = Tail(quJobs)
            /\ quMap' = Without(quMap, Head(quJobs))
            /\ quRet' = QuReturn("dequeue", TRUE,
                                  IF Head(quJobs) \in DOMAIN quMap
                                  THEN quMap[Head(quJobs)] ELSE QuNone)
    /\ UNCHANGED quNow
    /\ UNCHANGED notQu

\* the values of current_retry a job is handed to requeue with: untouched,
\* at max_retries and above it
QuRetries == {0, JobMaxRetries, JobMaxRetries + 1}

\* Queue::requeue of the job that dequeue has just returned, with the
\* current_retry its holder has given it
QuRequeue(retry) ==
    /\ quRet.op = "dequeue"
    /\ quRet.job # QuNone
    /\ LET job == [quRet.job EXCEPT !.next_run_at = quNow,
                                    !.current_retry = retry]
       IN  IF job.current_retry > JobMaxRetries
           THEN /\ UNCHANGED <<quJobs, quMap>>
                /\ quRet' = QuError("requeue", "Max retries reachd")
           ELSE IF enqueue_ok(quJobs, quMap, job.job_id)
           THEN /\ quJobs' = Append(quJobs, job.job_id)
                /\ quMap' = (job.job_id :> job) @@ quMap
                /\ quRet' = QuReturn("requeue", TRUE, QuNone)
           ELSE /\ UNCHANGED <<quJobs, quMap>>
                /\ quRet' = QuError("requeue",
                                    enqueue_error(quJobs, quMap, job.job_id))
    /\ UNCHANGED quNow
    /\ UNCHANGED notQu

\* Queue::peek
QuPeek ==
    /\ quRet' = QuReturn("peek", TRUE, Queue_peek(quJobs, quMap, quNow))
    /\ UNCHANGED <<quJobs, quMap, quNow>>
    /\ UNCHANGED notQu

\* if let Some(job) = self.jobs_map.get_mut(job_id) { job.job_status = .. }
set_status(map, id, status) ==
    IF id \in DOMAIN map THEN [map EXCEPT ![id].job_status = status] ELSE map

\* Queue::mark_processing
QuMarkProcessing(id) ==
    /\ quMap' = set_status(quMap, id, "Processing")
    /\ quRet' = QuReturn("mark_processing", id \in DOMAIN quMap, QuNone)
    /\ UNCHANGED <<quJobs, quNow>>
    /\ UNCHANGED notQu

\* Queue::mark_done
QuMarkDone(id) ==
    /\ quMap' = set_status(quMap, id, "Done")
    /\ quRet' = QuReturn("mark_done", id \in DOMAIN quMap, QuNone)
    /\ UNCHANGED <<quJobs, quNow>>
    /\ UNCHANGED notQu

\* Queue::mark_failed
QuMarkFailed(id) ==
    /\ quMap' = set_status(quMap, id, "Failed")
    /\ quRet' = QuReturn("mark_failed", id \in DOMAIN quMap, QuNone)
    /\ UNCHANGED <<quJobs, quNow>>
    /\ UNCHANGED notQu

\* the monotonic clock advances
QuClockTick ==
    /\ quNow < MaxNow
    /\ quNow' = quNow + 1
    /\ UNCHANGED <<quJobs, quMap, quRet>>
    /\ UNCHANGED notQu
(***************************************************************************)
(* The specifications.                                                     *)
(***************************************************************************)
KvIdle ==
    /\ kvNamespace = "full_docs"
    /\ kvData = [k \in Keys |-> NoValue]
    /\ kvDirty = FALSE
    /\ kvRet = NoRet
    /\ clock = 2
    /\ dsData = [k \in Keys |-> NoDoc]
    /\ dsDirty = FALSE
    /\ dsDisk = [k \in Keys |-> NoDoc]
    /\ dsRet = DsNoRet

FlIdle ==
    /\ flKind = "kv"
    /\ flData = EmptyData
    /\ flDirty = FALSE
    /\ flTaken = {}
    /\ fsTarget = 0
    /\ fsTmp = 0
    /\ fsInodes = [i \in Inodes |-> <<>>]
    /\ flPc = [t \in FlTasks |-> "idle"]
    /\ flSnap = [t \in FlTasks |-> EmptyData]
    /\ flHandle = [t \in FlTasks |-> 0]
    /\ flOff = [t \in FlTasks |-> 0]
    /\ flCrashed = FALSE

IgIdle ==
    /\ igFullDocs = <<>>
    /\ igFullDirty = FALSE
    /\ igDocStatus = <<>>
    /\ igInputDir = <<>>
    /\ igEnqueued = <<>>
    /\ igClock = 2
    /\ upPc = [r \in Uploads |-> "idle"]
    /\ upName = [r \in Uploads |-> ""]
    /\ upBytes = [r \in Uploads |-> <<>>]
    /\ upContent = [r \in Uploads |-> <<>>]
    /\ upDocIds = [r \in Uploads |-> {}]
    /\ upUnique = [r \in Uploads |-> {}]
    /\ upNow = [r \in Uploads |-> 0]
    /\ upResp = [r \in Uploads |-> ""]

SchIdle ==
    /\ qJobs = <<>>
    /\ qJobsMap = <<>>
    /\ textChunks = <<>>
    /\ schDocStatus = [d \in Docs |-> [status |-> "PENDING", chunks_list |-> {}]]
    /\ fullEntities = {}
    /\ workCh = <<>>
    /\ resultCh = <<>>
    /\ schPc = "select"
    /\ tickJob = NoJob
    /\ tickIds = {}
    /\ tickIdx = 0
    /\ schResult = NoResult
    /\ wkPc = [w \in Workers |-> "idle"]
    /\ wkDispatch = [w \in Workers |-> NoDispatch]
    /\ sent = [c \in ChunkIds |-> 0]

PgIdle ==
    /\ pgData = [id \in PgIds |-> PgAbsent]
    /\ pgDisk = [id \in PgIds |-> PgAbsent]
    /\ pgSeed = 0
    /\ pgRet = PgNoRet

ErIdle ==
    /\ erResults = [c \in ErChunks |-> EntitiesRelationships(<<>>, <<>>)]
    /\ erChunkStatus = [c \in ErChunks |-> "Pending"]
    /\ erFullEntities = <<>>
    /\ erFullRelations = <<>>

MgIdle ==
    /\ mgFile = MgNoFile
    /\ mgData = EmptyMap
    /\ mgDirty = FALSE
    /\ mgRet = MgNoRet

CkNoArgs == [tokens |-> <<>>, overlap_tokens |-> 0, max_tokens |-> 0]

CkNoRet == [op |-> "none", ok |-> TRUE, chunks |-> <<>>]

CkIdle ==
    /\ ckArgs = CkNoArgs
    /\ ckRet = CkNoRet

MlIdle ==
    /\ pqPc = [t \in PqCallers |-> "idle"]
    /\ runPc = [r \in Runners |-> "idle"]
    /\ processing_lock = 0
    /\ result_rx = 0

\* no call of the LLM client is under way
LlIdle ==
    /\ llPc = "idle"
    /\ llAttempt = 0
    /\ llPosts = 0
    /\ llGets = 0
    /\ llLast = NoReply
    /\ llRet = "none"

\* empty directories, no upload under way
QrIdle ==
    /\ qrInput = <<>>
    /\ qrEnq = <<>>
    /\ qrPc = [m \in Movers |-> "idle"]
    /\ qrName = [m \in Movers |-> NoName]
    /\ qrTarget = [m \in Movers |-> NoName]
    /\ qrRes = [m \in Movers |-> "none"]

\* every registered store is clean, no flush of all stores is under way
FzIdle ==
    /\ fzDirty = [s \in Stores |-> FALSE]
    /\ fzFlush = [s \in Stores |-> "none"]
    /\ fzOp = "none"
    /\ fzNext = 0
    /\ fzRet = "none"

\* Queue::new(capacity)
QuIdle ==
    /\ quJobs = <<>>
    /\ quMap = <<>>
    /\ quNow = 0
    /\ quRet = QuNoRet

\* every chunk is stored as Running, in memory and in the file; each worker
\* has the extraction result of its chunk; the scheduler waits
DuIdle ==
    /\ duData = [c \in DuWorkers |-> "Running"]
    /\ duDirty = FALSE
    /\ duDisk = [c \in DuWorkers |-> "Running"]
    /\ duPc = [t \in DuTasks |-> IF t = DuScheduler THEN "idle" ELSE "extracted"]
    /\ duSnap = [t \in DuTasks |-> duData]
    /\ duChan = {}
    /\ duReceived = {}

\* a PENDING document that process_queue has not come to
PdIdle ==
    /\ pdDoc = MissingDoc
    /\ pdCfg = [max_tokens |-> 1, overlap_tokens |-> 0]
    /\ pdPc = "idle"
    /\ pdChunks = <<>>
    /\ pdErr = "none"
    /\ pdStatus = PdStatusRecord("PENDING", 0, "none")
    /\ pdStore = <<>>

DpIdle ==
    /\ dpChunks = [c \in DpChunkIds |-> DpRecord("Pending", c)]
    /\ dpJobStatus = "Pending"
    /\ dpPc = "select"
    /\ dpTickChunks = <<>>
    /\ dpIdx = 0
    /\ dpWorkCh = <<>>
    /\ dpResultCh = <<>>
    /\ dpWkPc = [w \in DpWorkers |-> "idle"]
    /\ dpWkChunk = [w \in DpWorkers |-> 0]

ExtIdle == PgIdle /\ ErIdle /\ MgIdle /\ CkIdle /\ MlIdle
           /\ LlIdle
           /\ QrIdle
           /\ FzIdle
           /\ QuIdle
           /\ DuIdle
           /\ PdIdle
           /\ DpIdle

\* the parts of the first four specifications, none of them started
BaseIdle ==
    /\ KvIdle
    /\ storeKind = "kv"
    /\ FlIdle
    /\ IgIdle
    /\ SchIdle

\* a freshly initialized store of either type over an absent file
InitKv ==
    /\ FlIdle
    /\ IgIdle
    /\ SchIdle
    /\ ExtIdle
    /\ storeKind \in {"kv", "doc_status"}
    /\ kvNamespace \in (IF storeKind = "kv" THEN Namespaces ELSE {"full_docs"})
    /\ kvData = [k \in Keys |-> NoValue]
    /\ kvDirty = FALSE
    /\ kvRet = NoRet
    /\ clock = 2
    /\ dsData = [k \in Keys |-> NoDoc]
    /\ dsDirty = FALSE
    /\ dsDisk = [k \in Keys |-> NoDoc]
    /\ dsRet = DsNoRet

NextKv ==
    \/ \E records \in Batches : KvUpsert(records)
    \/ \E ids \in SUBSET Keys : KvDelete(ids)
    \/ \E id \in Keys : KvGetById(id)
    \/ \E keys \in SUBSET Keys : KvFilterKeys(keys)
    \/ ClockTick
    \/ \E records \in DsBatches : DsUpsert(records)
    \/ \E ids \in SUBSET Keys : DsDelete(ids)
    \/ DsSyncIfDirty
    \/ \E keys \in SUBSET Keys : DsFilterKeys(keys)

SpecKv == InitKv /\ [][NextKv]_vars

\* a freshly initialized doc-status store over an absent file
InitDropAll ==
    /\ InitKv
    /\ storeKind = "doc_status"

\* the calls that change the doc-status store, one caller at a time
NextDropAll ==
    \/ \E records \in DsBatches : DsUpsert(records)
    \/ \E ids \in SUBSET Keys : DsDelete(ids)
    \/ DsSyncIfDirty
    \/ DsDropAll

SpecDropAll == InitDropAll /\ [][NextDropAll]_vars

\* a store of either type, initialized over a directory without its file
InitStore ==
    /\ storeKind = "kv"
    /\ KvIdle
    /\ IgIdle
    /\ SchIdle
    /\ ExtIdle
    /\ flKind \in {"kv", "doc_status"}
    /\ flData = EmptyData
    /\ flDirty = FALSE
    /\ flTaken = {}
    /\ fsTarget = 0
    /\ fsTmp = 0
    /\ fsInodes = [i \in Inodes |-> <<>>]
    /\ flPc = [t \in FlTasks |-> "idle"]
    /\ flSnap = [t \in FlTasks |-> EmptyData]
    /\ flHandle = [t \in FlTasks |-> 0]
    /\ flOff = [t \in FlTasks |-> 0]
    /\ flCrashed = FALSE

\* the steps of the tasks when no IO call fails by itself
NextStoreOk ==
    \/ \E t \in FlTasks, k \in FlKeys : FlUpsert(t, k)
    \/ \E t \in FlTasks, k \in FlKeys : FlDelete(t, k)
    \/ \E t \in FlTasks : FlSwap(t)
    \/ \E t \in FlTasks : FlSnapshot(t)
    \/ \E t \in FlTasks : FlCreate(t)
    \/ \E t \in FlTasks : FlWrite(t)
    \/ \E t \in FlTasks : FlSyncAll(t)
    \/ \E t \in FlTasks : FlRename(t)

NextStore ==
    \/ NextStoreOk
    \/ \E t \in FlTasks : FlIoError(t)
    \/ FlCrash

SpecStore == InitStore /\ [][NextStore]_vars

SpecStoreOk == InitStore /\ [][NextStoreOk]_vars


\* the server after start-up over empty stores and an empty input directory
InitIngest ==
    /\ storeKind = "kv"
    /\ KvIdle
    /\ FlIdle
    /\ IgIdle
    /\ SchIdle
    /\ ExtIdle

NextIngest ==
    \/ \E r \in Uploads, name \in FileNames, bytes \in RawContents :
          UpReceive(r, name, bytes)
    \/ \E r \in Uploads : UpCheckDoc(r)
    \/ \E r \in Uploads : UpCheckFile(r)
    \/ \E r \in Uploads : UpWrite(r)
    \/ \E r \in Uploads : EfExtract(r)
    \/ \E r \in Uploads : ErRecord(r)
    \/ \E r \in Uploads : EdFilter(r)
    \/ \E r \in Uploads : EdUpsertDocs(r)
    \/ \E r \in Uploads : EdUpsertStatus(r)
    \/ \E r \in Uploads : EdPersist(r)
    \/ \E r \in Uploads : EfMove(r)
    \/ \E r \in Uploads : UpRespond(r)
    \/ IgClockTick

SpecIngest == InitIngest /\ [][NextIngest]_vars

\* the contents of the uploads of the intake-failure runs: one that extracts
\* and one that is all whitespace, which Utf8DocumentExtractor rejects
IntakeContents == {<<"x">>, <<"SP">>}

\* the upload handlers while the clock stands still
NextIntake ==
    \/ \E r \in Uploads, name \in FileNames, bytes \in IntakeContents :
          UpReceive(r, name, bytes)
    \/ \E r \in Uploads : UpCheckDoc(r)
    \/ \E r \in Uploads : UpCheckFile(r)
    \/ \E r \in Uploads : UpWrite(r)
    \/ \E r \in Uploads : EfExtract(r)
    \/ \E r \in Uploads : ErRecord(r)
    \/ \E r \in Uploads : EdFilter(r)
    \/ \E r \in Uploads : EdUpsertDocs(r)
    \/ \E r \in Uploads : EdUpsertStatus(r)
    \/ \E r \in Uploads : EdPersist(r)
    \/ \E r \in Uploads : EfMove(r)
    \/ \E r \in Uploads : UpRespond(r)

SpecIntake == InitIngest /\ [][NextIntake]_vars

\* the scheduler and the worker pool after start-up; the documents are in
\* doc_status as PENDING, none has been handed to the scheduler
InitSched ==
    /\ storeKind = "kv"
    /\ KvIdle
    /\ FlIdle
    /\ IgIdle
    /\ SchIdle
    /\ ExtIdle

\* the steps when every extraction succeeds
NextSchedOk ==
    \/ \E d \in Docs : enqueue_pending_docs(d)
    \/ SchedulerStep
    \/ \E w \in Workers : WorkerOkStep(w)

SpecSched == InitSched /\ [][NextSchedOk]_vars

\* the steps when one document is handed in and extractions may fail
NextRetry ==
    \/ enqueue_pending_docs(1)
    \/ SchedulerStep
    \/ \E w \in Workers : WorkerOkStep(w)
    \/ \E w \in Workers : WkFail(w)
    \/ \E w \in Workers : WkResend(w)

SpecRetry == InitSched /\ [][NextRetry]_vars

\* every extraction succeeds; the scheduler task and every worker task
\* are scheduled fairly
FairSched ==
    /\ InitSched
    /\ [][NextSchedOk]_vars
    /\ WF_vars(SchedulerStep)
    /\ \A w \in Workers : WF_vars(WorkerOkStep(w))

\* the paginated doc-status store, opened over an absent file
InitPage ==
    /\ KvIdle
    /\ storeKind = "doc_status"
    /\ FlIdle
    /\ IgIdle
    /\ SchIdle
    /\ ErIdle
    /\ MgIdle
    /\ CkIdle
    /\ MlIdle
    /\ DpIdle
    /\ PdIdle
    /\ DuIdle
    /\ QuIdle
    /\ FzIdle
    /\ QrIdle
    /\ LlIdle
    /\ pgData = [id \in PgIds |-> PgAbsent]
    /\ pgDisk = [id \in PgIds |-> PgAbsent]
    /\ pgSeed \in PgSeeds
    /\ pgRet = PgNoRet

NextPage ==
    \/ \E stamp \in 1..MaxStamp : PgUpsert(stamp)
    \/ PgInitialize
    \/ \E q \in PgQueries, p \in PgPages : PgDocsPaginated(q, p)

SpecPage == InitPage /\ [][NextPage]_vars

\* a job whose chunks are out for extraction, over empty stores
InitResults ==
    /\ BaseIdle
    /\ PgIdle
    /\ MgIdle
    /\ CkIdle
    /\ MlIdle
    /\ DpIdle
    /\ PdIdle
    /\ DuIdle
    /\ QuIdle
    /\ FzIdle
    /\ QrIdle
    /\ LlIdle
    /\ erResults \in [ErChunks -> Extractions]
    /\ erChunkStatus = [c \in ErChunks |-> "Pending"]
    /\ erFullEntities = <<>>
    /\ erFullRelations = <<>>

NextResults == \E c \in ErChunks : ErProcessChunkResult(c)

SpecResults == InitResults /\ [][NextResults]_vars

\* a new JsonKvStorage over a file that some earlier run left
InitMigrate ==
    /\ BaseIdle
    /\ PgIdle
    /\ ErIdle
    /\ CkIdle
    /\ MlIdle
    /\ DpIdle
    /\ PdIdle
    /\ DuIdle
    /\ QuIdle
    /\ FzIdle
    /\ QrIdle
    /\ LlIdle
    /\ mgFile \in MgFiles
    /\ mgData = EmptyMap
    /\ mgDirty = FALSE
    /\ mgRet = MgNoRet

NextMigrate ==
    \/ MgInitialize
    \/ MgGetAll
    \/ \E id \in {<<"modeA", "extract", "h1">>, <<"modeB">>} : MgDelete(id)
    \/ MgSyncIfDirty

SpecMigrate == InitMigrate /\ [][NextMigrate]_vars

\* a TokenizerChunker that has not been called
InitChunk ==
    /\ BaseIdle
    /\ PgIdle
    /\ ErIdle
    /\ MgIdle
    /\ CkIdle
    /\ MlIdle
    /\ DpIdle
    /\ PdIdle
    /\ DuIdle
    /\ QuIdle
    /\ FzIdle
    /\ QrIdle
    /\ LlIdle

NextChunk ==
    \E len \in 0..MaxTokens, max_tokens \in 0..MaxWindow,
       overlap_tokens \in 0..MaxWindow :
        CkChunk(Document(len), overlap_tokens, max_tokens)

SpecChunk == InitChunk /\ [][NextChunk]_vars

\* a pipeline and its scheduler after construction: no call is under way
InitMain ==
    /\ BaseIdle
    /\ PgIdle
    /\ ErIdle
    /\ MgIdle
    /\ CkIdle
    /\ MlIdle
    /\ DpIdle
    /\ PdIdle
    /\ DuIdle
    /\ QuIdle
    /\ FzIdle
    /\ QrIdle
    /\ LlIdle

NextMain ==
    \/ \E t \in PqCallers : PqCall(t)
    \/ \E t \in PqCallers : PqAcquire(t)
    \/ \E t \in PqCallers : PqDocsByStatus(t)
    \/ \E t \in PqCallers : PqProcessDocument(t)
    \/ \E t \in PqCallers : PqPersistAll(t)
    \/ \E r \in Runners : RunCall(r)
    \/ \E r \in Runners : RunLock(r)
    \/ \E r \in Runners : RunTick(r)
    \/ \E r \in Runners : RunRecv(r)
    \/ \E r \in Runners : RunProcessChunkResult(r)

SpecMain == InitMain /\ [][NextMain]_vars

\* a client on which responses_structured has not been called
InitLlm ==
    /\ BaseIdle
    /\ PgIdle
    /\ ErIdle
    /\ MgIdle
    /\ CkIdle
    /\ MlIdle
    /\ DpIdle
    /\ PdIdle
    /\ DuIdle
    /\ QuIdle
    /\ FzIdle
    /\ QrIdle
    /\ LlIdle

NextLlm ==
    \/ LlCall
    \/ \E reply \in PostReplies : LlPost(reply)
    \/ LlSleep
    \/ \E reply \in PollReplies : LlPoll(reply)
    \/ LlPollSleep
    \/ LlPollTimeout

SpecLlm == InitLlm /\ [][NextLlm]_vars

\* the input directory of a workspace before any upload
InitQuarantine ==
    /\ BaseIdle
    /\ PgIdle
    /\ ErIdle
    /\ MgIdle
    /\ CkIdle
    /\ MlIdle
    /\ DpIdle
    /\ PdIdle
    /\ DuIdle
    /\ QuIdle
    /\ FzIdle
    /\ LlIdle
    /\ QrIdle

NextQuarantine ==
    \/ \E m \in Movers, name \in QrNames : QrReceive(m, name)
    \/ \E m \in Movers : QrCheckFile(m)
    \/ \E m \in Movers : QrWrite(m)
    \/ \E m \in Movers : QrUniqueFilename(m)
    \/ \E m \in Movers : QrRename(m)

SpecQuarantine == InitQuarantine /\ [][NextQuarantine]_vars

\* the stores after initialize_all
InitFinalize ==
    /\ BaseIdle
    /\ PgIdle
    /\ ErIdle
    /\ MgIdle
    /\ CkIdle
    /\ MlIdle
    /\ DpIdle
    /\ PdIdle
    /\ DuIdle
    /\ QuIdle
    /\ LlIdle
    /\ QrIdle
    /\ FzIdle

NextFinalize ==
    \/ \E s \in Stores : FzUpsert(s)
    \/ \E op \in {"finalize_all", "persist_all"} : FzCall(op)
    \/ \E ok \in BOOLEAN : FzSyncIfDirty(ok)
    \/ FzReturn

SpecFinalize == InitFinalize /\ [][NextFinalize]_vars

\* an empty Queue
InitQueue ==
    /\ BaseIdle
    /\ PgIdle
    /\ ErIdle
    /\ MgIdle
    /\ CkIdle
    /\ MlIdle
    /\ DpIdle
    /\ PdIdle
    /\ DuIdle
    /\ LlIdle
    /\ QrIdle
    /\ FzIdle
    /\ QuIdle

NextQueue ==
    \/ \E id \in QuIds : QuEnqueue(id)
    \/ QuDequeue
    \/ \E retry \in QuRetries : QuRequeue(retry)
    \/ QuPeek
    \/ \E id \in QuIds : QuMarkProcessing(id)
    \/ \E id \in QuIds : QuMarkDone(id)
    \/ \E id \in QuIds : QuMarkFailed(id)
    \/ QuClockTick

SpecQueue == InitQueue /\ [][NextQueue]_vars

\* the workers after their extraction calls have returned Ok
InitDurable ==
    /\ BaseIdle
    /\ PgIdle
    /\ ErIdle
    /\ MgIdle
    /\ CkIdle
    /\ MlIdle
    /\ DpIdle
    /\ PdIdle
    /\ LlIdle
    /\ QrIdle
    /\ FzIdle
    /\ QuIdle
    /\ DuIdle

NextDurable ==
    \/ \E w \in DuWorkers : DuUpsert(w)
    \/ DuPersistAll
    \/ \E t \in DuTasks : DuSwap(t)
    \/ \E t \in DuTasks : DuSnapshot(t)
    \/ \E t \in DuTasks, ok \in BOOLEAN : DuWrite(t, ok)
    \/ \E w \in DuWorkers : DuSend(w)
    \/ \E c \in DuWorkers : DuRecv(c)

SpecDurable == InitDurable /\ [][NextDurable]_vars

\* process_queue has found a PENDING document
InitDocument ==
    /\ BaseIdle
    /\ PgIdle
    /\ ErIdle
    /\ MgIdle
    /\ CkIdle
    /\ MlIdle
    /\ DpIdle
    /\ LlIdle
    /\ QrIdle
    /\ FzIdle
    /\ QuIdle
    /\ DuIdle
    /\ PdIdle

NextDocument ==
    \/ \E doc \in PdDocs, max_tokens \in 1..MaxWindow,
          overlap_tokens \in 0..MaxWindow :
          PdProcessDocument(doc, max_tokens, overlap_tokens)
    \/ PdGetContent
    \/ PdChunk
    \/ \E ok \in BOOLEAN : PdExtract(ok)
    \/ PdMarkProcessing
    \/ PdStore
    \/ PdMarkProcessed
    \/ PdMarkFailed

SpecDocument == InitDocument /\ [][NextDocument]_vars

\* a job waits on the queue; text_chunks holds the chunk records of its
\* document, each in any of the states a record is stored in
InitDispatch ==
    /\ storeKind = "kv"
    /\ BaseIdle
    /\ PgIdle
    /\ ErIdle
    /\ MgIdle
    /\ CkIdle
    /\ MlIdle
    /\ LlIdle
    /\ QrIdle
    /\ FzIdle
    /\ QuIdle
    /\ DuIdle
    /\ PdIdle
    /\ dpChunks \in {[c \in DpChunkIds |-> DpRecord(st[c], c)] :
                        st \in [DpChunkIds -> {"Pending", "Failed", "Success"}]}
    /\ dpJobStatus = "Pending"
    /\ dpPc = "select"
    /\ dpTickChunks = <<>>
    /\ dpIdx = 0
    /\ dpWorkCh = <<>>
    /\ dpResultCh = <<>>
    /\ dpWkPc = [w \in DpWorkers |-> "idle"]
    /\ dpWkChunk = [w \in DpWorkers |-> 0]

\* the scheduler and the pool when every extraction succeeds
NextDispatchOk ==
    \/ DpPeek
    \/ DpMark
    \/ DpSend
    \/ DpSleep
    \/ DpRecv
    \/ DpProcessChunkResult
    \/ \E w \in DpWorkers : DpWkRecv(w)
    \/ \E w \in DpWorkers : DpWkSucceed(w)
    \/ \E w \in DpWorkers : DpWkSendResult(w)

\* the same when extractions may fail
NextDispatch ==
    \/ NextDispatchOk
    \/ \E w \in DpWorkers : DpWkFail(w)
    \/ \E w \in DpWorkers : DpWkResend(w)

SpecDispatchOk == InitDispatch /\ [][NextDispatchOk]_vars

SpecDispatch == InitDispatch /\ [][NextDispatch]_vars

\* process_document for a document whose tokens may repeat
NextChunkRecords ==
    \/ \E doc \in PdRepeatingDocs, max_tokens \in 1..MaxWindow,
          overlap_tokens \in 0..MaxWindow :
          PdProcessDocument(doc, max_tokens, overlap_tokens)
    \/ PdGetContent
    \/ PdChunk
    \/ \E ok \in BOOLEAN : PdExtract(ok)
    \/ PdMarkProcessing
    \/ PdStore
    \/ PdMarkProcessed
    \/ PdMarkFailed

SpecChunkRecords == InitDocument /\ [][NextChunkRecords]_vars
(***************************************************************************)
(* Claims about the store calls (checked under SpecKv).                    *)
(***************************************************************************)

\* C9 (as stated): after upsert({k: x}), get_by_id(k) returns
\* Some(normalize(x)): every field of x unchanged, _id = k and the
\* create_time / update_time that normalize gives x.
C9_GetReturnsNormalizedInput ==
    [][\A k \in Keys, x \in Inputs :
          KvUpsert(k :> x) => kv_get_by_id(kvData', k) = normalize_record(k, x)]_vars

\* C9 (amended): after upsert(records), get_by_id(k) of every upserted key
\* returns the record with every field of x other than _id and update_time
\* unchanged, _id = k, update_time = the time of the upsert, create_time =
\* that of x when x has one and the time of the upsert otherwise (and an
\* empty llm_cache_list added in the text_chunks namespace when x has none);
\* the keys held afterwards are the keys held before plus the upserted
\* ones, so a repeated upsert leaves one record under k.
C9_UpsertGetRoundTrip ==
    [][\A recs \in (IF storeKind = "kv" THEN Batches ELSE {}) :
          KvUpsert(recs) =>
            /\ KvPresent(kvData') = KvPresent(kvData) \cup DOMAIN recs
            /\ \A k \in DOMAIN recs :
                 LET xm == AsObjectMap(recs[k])
                     got == kv_get_by_id(kvData', k)
                     added == IF kvNamespace = "text_chunks"
                              THEN {"llm_cache_list"} ELSE {}
                 IN  /\ got.kind = "object"
                     /\ DOMAIN got.map =
                          DOMAIN xm \cup {"_id", "create_time", "update_time"} \cup added
                     /\ \A f \in DOMAIN xm \ {"_id", "update_time"} :
                          got.map[f] = xm[f]
                     /\ got.map["_id"] = k
                     /\ got.map["update_time"] = clock
                     /\ got.map["create_time"] =
                          (IF "create_time" \in DOMAIN xm
                           THEN xm["create_time"] ELSE clock)
                     /\ (added # {} /\ "llm_cache_list" \notin DOMAIN xm)
                          => got.map["llm_cache_list"] = <<>>]_vars

\* C9 witness: a record that came with create_time = 1 was upserted at a
\* later time and then read back with get_by_id.
C9_Witness ==
    \E k \in Keys :
        /\ kvData[k] # NoValue
        /\ kvData[k].map["create_time"] = 1
        /\ kvData[k].map["update_time"] = 3
        /\ kvRet.op = "get_by_id"
        /\ kvRet.key = k
        /\ kvRet.value = kvData[k]

C6_TargetIsCompleteSnapshot ==
    fsTarget # 0 => \E m \in flTaken : fsInodes[fsTarget] = Serialize(m)

\* C7: when the write of a flush fails, the dirty flag is set after the
\* call returned its error.
C7_FailedFlushKeepsDirty ==
    [][\A t \in FlTasks : FlIoError(t) => flDirty']_vars

\* C8: whenever no sync_if_dirty call is in progress and the dirty flag is
\* clear, the store file holds the in-memory map.
C8_CleanMeansOnDisk ==
    (/\ ~flCrashed
     /\ \A t \in FlTasks : flPc[t] = "idle"
     /\ ~flDirty)
      => load_or_default(fsTarget, fsInodes) = [ok |-> TRUE, map |-> flData]

(***************************************************************************)
(* Claims about the ingest front (checked under SpecIngest).               *)
(***************************************************************************)

\* C4: once every upload of some content has been answered, full_docs and
\* doc_status each hold exactly one entry for it, under the same doc id;
\* and no step of a later ingest changes the track_id, file_path or
\* created_at of a doc_status entry that an earlier ingest wrote.
C4_IdempotentIngest ==
    /\ [](\A r \in Uploads :
            (upPc[r] = "done" /\ upDocIds[r] # {}) =>
                \A id \in upDocIds[r] :
                    /\ id \in DOMAIN igDocStatus
                    /\ id \in DOMAIN igFullDocs
                    /\ Cardinality({d \in DOMAIN igDocStatus :
                                       d.digest = id.digest}) = 1
                    /\ Cardinality({d \in DOMAIN igFullDocs :
                                       d.digest = id.digest}) = 1)
    /\ [][\A id \in DOMAIN igDocStatus :
            /\ id \in DOMAIN igDocStatus'
            /\ igDocStatus'[id].track_id = igDocStatus[id].track_id
            /\ igDocStatus'[id].file_path = igDocStatus[id].file_path
            /\ igDocStatus'[id].created_at = igDocStatus[id].created_at]_vars

\* C5: an upload whose content id was found in doc_status is answered with
\* status `duplicated`, and its file is not moved into `__enqueued__`.
C5_DuplicateContentReported ==
    /\ [](\A r \in Uploads :
            (upPc[r] = "done" /\ FoundKnown(r)) => upResp[r] = "duplicated")
    /\ [][\A r \in Uploads :
            (EfMove(r) /\ FoundKnown(r)) =>
                UNCHANGED <<igInputDir, igEnqueued>>]_vars

(***************************************************************************)
(* Claims about the scheduler and the worker pool (checked under           *)
(* SpecRetry, SpecSched and FairSched).                                    *)
(***************************************************************************)

\* C1: for every chunk, the JobDispatch of the chunk is put on the work
\* channel at most max_retries + 1 times, the tick's send and the workers'
\* resends counted together; a worker resends no chunk that has used up
\* that budget.
C1_RetryBound ==
    /\ [](\A c \in ChunkIds : sent[c] <= ChunkMaxRetries + 1)
    /\ [][\A w \in Workers :
            WkResend(w) =>
                sent[wkDispatch[w].chunk.chunk_id]
                    <= wkDispatch[w].chunk.max_retries]_vars

\* C2: when nothing is in flight and every chunk record of a job that left
\* Pending is stored as Success or Failed, the document is PROCESSED and the
\* job Done exactly if every chunk is Success, FAILED and Failed exactly if
\* every chunk is Failed, and PartiallyFailed otherwise.
C2_RollupCorrect ==
    \A d \in Docs :
        (/\ JobId(d) \in DOMAIN qJobsMap
         /\ qJobsMap[JobId(d)].job_status # "Pending"
         /\ Quiescent
         /\ ChunksOf(d) \subseteq DOMAIN textChunks
         /\ \A c \in ChunksOf(d) : textChunks[c].status \in {"Success", "Failed"})
        => LET rollup == IF AllChunksSuccess(d)
                         THEN [doc |-> "PROCESSED", job |-> "Done"]
                         ELSE IF AllChunksFailed(d)
                         THEN [doc |-> "FAILED", job |-> "Failed"]
                         ELSE [doc |-> "PARTIALLY_FAILED",
                               job |-> "PartiallyFailed"]
           IN  /\ schDocStatus[d].status = rollup.doc
               /\ qJobsMap[JobId(d)].job_status = rollup.job

\* C3: with the scheduler and the workers scheduled fairly, a job that is
\* Processing and whose chunks are all stored as Success is eventually Done
\* with its document PROCESSED.
C3_JobTerminates ==
    \A d \in Docs :
        (/\ JobId(d) \in DOMAIN qJobsMap
         /\ qJobsMap[JobId(d)].job_status = "Processing"
         /\ AllChunksSuccess(d))
        ~> (/\ JobId(d) \in DOMAIN qJobsMap
            /\ qJobsMap[JobId(d)].job_status = "Done"
            /\ schDocStatus[d].status = "PROCESSED")


(***************************************************************************)
(* Claims about the storage test's filter_keys scenario (SpecKv).          *)
(***************************************************************************)

RECURSIVE PgConcat(_, _, _, _, _, _, _)
PgConcat(data, seed, status_filter, last, page_size, sort_field, sort_direction) ==
    IF last = 0 THEN <<>>
    ELSE PgConcat(data, seed, status_filter, last - 1, page_size, sort_field,
                  sort_direction)
           \o docs_paginated(data, seed, status_filter, last, page_size,
                             sort_field, sort_direction).items

\* a page number past the end of every list of the model
PgPastEnd == (NumPgDocs \div PageSizeMin) + 2

\* C12: for fixed store contents and a fixed query, docs_paginated is a
\* function of the contents (a result obtained earlier is the result the
\* same call gives on the same contents now), total is the number of
\* records matching the filter, a page holds at most clamp(size, 10, 200)
\* records, the pages 1, 2, 3, ... one after the other hold every matching
\* record exactly once in sorted order, page 0 is page 1, and a page past
\* the end is empty.
C12_PaginationLaw ==
    (pgRet.op = "docs_paginated") =>
        LET f == pgRet.status_filter
            n == pgRet.page_size
            fld == pgRet.sort_field
            dir == pgRet.sort_direction
            page(p) == docs_paginated(pgData, pgSeed, f, p, n, fld, dir)
            matching == {id \in PgPresent(pgData) :
                           f = "None" \/ pgData[id].status = f}
            all == PgConcat(pgData, pgSeed, f, PgPastEnd, n, fld, dir)
            key == [id \in PgIds |-> build_sort_key(pgData[id], id, fld)]
            descending == to_lowercase(dir) = "desc"
        IN  /\ pgRet.items = page(pgRet.page).items
            /\ pgRet.total = page(pgRet.page).total
            /\ pgRet.total = Cardinality(matching)
            /\ Len(pgRet.items) <= Clamp(n, PageSizeMin, PageSizeMax)
            /\ Len(all) = Cardinality(matching)
            /\ {all[i] : i \in 1..Len(all)} = matching
            /\ \A i \in 1..(Len(all) - 1) :
                 IF descending THEN key[all[i]] >= key[all[i + 1]]
                               ELSE key[all[i]] <= key[all[i + 1]]
            /\ page(0) = page(1)
            /\ page(PgPastEnd).items = <<>>

\* the store holds exactly three records, with distinct updated_at values
PgThreeDistinct ==
    /\ Cardinality(PgPresent(pgData)) = 3
    /\ \A a, b \in PgPresent(pgData) :
         a # b => pgData[a].updated_at # pgData[b].updated_at

\* the ids of the store from the most recently updated to the oldest
PgNewestFirst ==
    LET n == Cardinality(PgPresent(pgData))
    IN  [p \in 1..n |->
           CHOOSE a \in PgPresent(pgData) :
              Cardinality({b \in PgPresent(pgData) :
                             pgData[b].updated_at > pgData[a].updated_at}) = p - 1]

\* the call docs_paginated(None, page, 2, "updated_at", "desc") was made
PgScenarioCall(page) ==
    /\ pgRet.op = "docs_paginated"
    /\ pgRet.status_filter = "None"
    /\ pgRet.page = page
    /\ pgRet.page_size = 2
    /\ pgRet.sort_field = "updated_at"
    /\ pgRet.sort_direction = "desc"

\* C13 (as stated): on a store of three records with distinct updated_at,
\* docs_paginated(None, 1, 2, "updated_at", "desc") returns total 3 and
\* [newest, middle], and page 2 returns [oldest].
C13_PagesOfTwo ==
    PgThreeDistinct =>
        /\ PgScenarioCall(1) =>
             (pgRet.total = 3 /\ pgRet.items = SubSeq(PgNewestFirst, 1, 2))
        /\ PgScenarioCall(2) => pgRet.items = SubSeq(PgNewestFirst, 3, 3)

\* C13 (amended): on a store of three records with distinct updated_at,
\* docs_paginated(None, 1, 2, "updated_at", "desc") returns total 3 and all
\* three records [newest, middle, oldest], the page size 2 being clamped to
\* 10, and page 2 returns total 3 and no record.
C13_PageSizeClamped ==
    PgThreeDistinct =>
        /\ PgScenarioCall(1) =>
             (pgRet.total = 3 /\ pgRet.items = PgNewestFirst)
        /\ PgScenarioCall(2) => (pgRet.total = 3 /\ pgRet.items = <<>>)

\* C13 witness: the first page of the scenario was asked for on a store of
\* three records with distinct updated_at and came back with three records.
C13_Witness ==
    /\ PgThreeDistinct
    /\ PgScenarioCall(1)
    /\ Len(pgRet.items) = 3

(***************************************************************************)
(* Claims about the handling of chunk results (SpecResults).               *)
(***************************************************************************)

\* C14: every relationship record in full_relations has a source_entity_id
\* and a target_entity_id that are not null and are keys of full_entities
\* records of the same doc_id (no record of either store is ever removed,
\* so this is what held when the record was written); a relationship with
\* an end that the batch's name -> id map does not hold is not written.
C14_RelationsResolve ==
    \A k \in DOMAIN erFullRelations :
        LET r == erFullRelations[k]
        IN  /\ r.source_entity_id # NullId
            /\ r.target_entity_id # NullId
            /\ r.source_entity_id \in DOMAIN erFullEntities
            /\ r.target_entity_id \in DOMAIN erFullEntities
            /\ erFullEntities[r.source_entity_id].doc_id = r.doc_id
            /\ erFullEntities[r.target_entity_id].doc_id = r.doc_id

\* the stores after the results of the chunks 1..n were handled in that
\* order, starting from empty stores
RECURSIVE ErInOrder(_)
ErInOrder(n) ==
    IF n = 0 THEN [entities |-> <<>>, relations |-> <<>>]
    ELSE LET before == ErInOrder(n - 1)
         IN  process_chunk_result(before.entities, before.relations,
                                  JobResult(n, erResults[n]))

\* C15: once the results of all chunks of the job have been received, in
\* whatever order and however often, full_entities and full_relations hold
\* what they hold after the results were received in chunk order; handling
\* a result a second time changes nothing; and no two keys of full_entities
\* carry the same (doc_id, entity_name, entity_type).
C15_OrderIndependent ==
    /\ (\A c \in ErChunks : erChunkStatus[c] = "Success") =>
          /\ erFullEntities = ErInOrder(NumErChunks).entities
          /\ erFullRelations = ErInOrder(NumErChunks).relations
    /\ \A c \in ErChunks :
          LET once == process_chunk_result(erFullEntities, erFullRelations,
                                           JobResult(c, erResults[c]))
          IN  process_chunk_result(once.entities, once.relations,
                                   JobResult(c, erResults[c])) = once
    /\ \A k1, k2 \in DOMAIN erFullEntities :
          (/\ erFullEntities[k1].doc_id = erFullEntities[k2].doc_id
           /\ erFullEntities[k1].entity_name = erFullEntities[k2].entity_name
           /\ erFullEntities[k1].entity_type = erFullEntities[k2].entity_type)
             => k1 = k2

\* the nested form: every top-level value is a map of entries with `return`
MgNestedForm(file) ==
    /\ file.exists
    /\ DOMAIN file.data # {}
    /\ \A m \in DOMAIN file.data :
          /\ file.data[m].kind = "object"
          /\ \A h \in DOMAIN file.data[m].map :
                /\ file.data[m].map[h].kind = "object"
                /\ <<"return">> \in DOMAIN file.data[m].map[h].map

\* the flat form: every key is mode:cache_type:hash
MgFlatForm(file) ==
    /\ file.exists
    /\ DOMAIN file.data # {}
    /\ \A k \in DOMAIN file.data : Len(k) = 3

MgPairs(file) ==
    {<<m, h>> : m \in DOMAIN file.data, h \in UNION {DOMAIN file.data[x].map :
                                                        x \in DOMAIN file.data}}
        \cap {p \in (DOMAIN file.data) \X UNION {DOMAIN file.data[x].map :
                                                    x \in DOMAIN file.data} :
                 p[2] \in DOMAIN file.data[p[1]].map}

\* "{mode}:{cache_type}:{hash}", cache_type being "extract" when absent
MgFlatKey(file, p) ==
    LET entry == file.data[p[1]].map[p[2]].map
    IN  p[1] \o <<IF <<"cache_type">> \in DOMAIN entry
                  THEN entry[<<"cache_type">>].str ELSE "extract">> \o p[2]

\* the records of a nested file under their flat keys
MgFlatOf(file) ==
    [k \in {MgFlatKey(file, p) : p \in MgPairs(file)} |->
        LET p == CHOOSE q \in MgPairs(file) : MgFlatKey(file, q) = k
        IN  file.data[p[1]].map[p[2]]]

\* get_all after the step: one record per pair, under its flat key, with the
\* fields of the entry, and the flag clear
MgMigratedRecords ==
    LET all == get_all(mgData')
    IN  /\ DOMAIN all = DOMAIN MgFlatOf(mgFile)
        /\ Cardinality(DOMAIN all) = Cardinality(MgPairs(mgFile))
        /\ \A k \in DOMAIN all :
              \A f \in DOMAIN MgFlatOf(mgFile)[k].map :
                  /\ f \in DOMAIN all[k].map
                  /\ all[k].map[f] = MgFlatOf(mgFile)[k].map[f]
        /\ mgDirty' = FALSE

MgFlatUnchanged ==
    /\ mgFile' = mgFile
    /\ mgData' = mgFile.data

MgInitializeOk == mgRet'.op = "initialize" /\ mgRet'.ok

\* C16 as stated: an initialize over a nested file leaves one record per
\* (mode, hash) pair under "{mode}:{cache_type}:{hash}", clears the flag and
\* rewrites the file in the flat form; over a flat file it changes nothing.
C16_FileAlwaysRewritten ==
    [][MgInitializeOk =>
         /\ MgNestedForm(mgFile) =>
               MgMigratedRecords /\ mgFile' = MgFileOf(MgFlatOf(mgFile))
         /\ MgFlatForm(mgFile) => MgFlatUnchanged]_vars

\* C16, amended: as above, but the file is rewritten only when the nested
\* file held at least one entry; a file whose modes are all empty is left as
\* it is, while the map in memory is empty.
C16_RewrittenWhenEntryMoved ==
    [][MgInitializeOk =>
         /\ MgNestedForm(mgFile) =>
               /\ MgMigratedRecords
               /\ mgFile' = IF MgPairs(mgFile) # {}
                            THEN MgFileOf(MgFlatOf(mgFile)) ELSE mgFile
         /\ MgFlatForm(mgFile) => MgFlatUnchanged]_vars

\* an initialize has moved an entry without cache_type under "extract" and
\* one with cache_type "embed" under it, and the file holds the flat map
C16_Witness ==
    /\ mgRet.op = "initialize" /\ mgRet.ok
    /\ ~mgDirty
    /\ <<"modeB", "extract", "h2">> \in DOMAIN mgData
    /\ <<"modeB", "embed", "h1">> \in DOMAIN mgData
    /\ <<"modeB">> \notin DOMAIN mgData
    /\ mgFile = MgFileOf(mgData)

\* C17: when a sync_if_dirty that follows upsert and delete calls has
\* returned Ok, a new store instance initialized over the same file holds
\* the keys and the records of the map in memory.
C17_ReloadGivesMemory ==
    (storeKind = "doc_status" /\ dsRet.op = "sync_if_dirty" /\ dsRet.ok)
        => ds_initialize(dsDisk) = dsData

\* the chunks of a document that are stored as Pending or Failed
UnfinishedChunksOf(chunks, doc) ==
    {c \in DOMAIN chunks :
        /\ chunks[c].full_doc_id = doc
        /\ chunks[c].status \in {"Pending", "Failed"}}

\* a chunk stored as Success is not sent on the work channel
SuccessNotSent ==
    \A c \in DOMAIN textChunks :
        textChunks[c].status = "Success" => sent'[c] = sent[c]

\* a chunk stored as Success is not stored as Failed
SuccessNotFailed ==
    \A c \in DOMAIN textChunks :
        textChunks[c].status = "Success" => textChunks'[c].status # "Failed"

\* the tick that takes a job selects the unfinished chunks of its document
TickSelectsUnfinished ==
    (schPc = "select" /\ schPc' = "t_reread") =>
        {tickJob'.chunks[i].chunk_id : i \in 1..Len(tickJob'.chunks)}
            = UnfinishedChunksOf(textChunks, tickJob'.doc_id)

\* C18: a chunk whose stored status is Success is never put on the work
\* channel again, by a tick or by a worker's resend, and its status is never
\* overwritten by Failed; the tick that takes up the job of a document
\* dispatches exactly the chunks of that document stored as Pending or
\* Failed.
C18_OnlyUnfinishedRedispatched ==
    [][SuccessNotSent /\ SuccessNotFailed /\ TickSelectsUnfinished]_vars

\* the window [k*(M-V), min(k*(M-V)+M, L)) as a set of token positions,
\* position p being the token tokens[p+1]
CkWindow(k, len, max_tokens, overlap_tokens) ==
    {p \in 0..(len - 1) :
        /\ k * (max_tokens - overlap_tokens) <= p
        /\ p < Min(k * (max_tokens - overlap_tokens) + max_tokens, len)}

\* the positions a chunk holds
CkPositions(c) == {c.content[i] - 1 : i \in 1..Len(c.content)}

RECURSIVE CkSumTokens(_)
CkSumTokens(chunks) ==
    IF chunks = <<>> THEN 0
    ELSE chunks[1].token_count + CkSumTokens(Tail(chunks))

\* C19: for a document of L > 0 tokens and V < M the call returns the
\* windows [k*(M-V), min(k*(M-V)+M, L)), k = 0, 1, ..., which cover [0, L);
\* consecutive windows share exactly V tokens, the order indices are
\* 0, 1, 2, ..., and sum(token_count) - (n-1)*V = L; for V >= M the call
\* fails and returns no chunk.
C19_ChunkCoverage ==
    ckRet.op = "chunk" =>
        LET len == Len(ckArgs.tokens)
            M == ckArgs.max_tokens
            V == ckArgs.overlap_tokens
            n == Len(ckRet.chunks)
        IN  /\ (len > 0 /\ V < M) =>
                  /\ ckRet.ok
                  /\ n >= 1
                  /\ \A k \in 1..n :
                        /\ CkPositions(ckRet.chunks[k]) = CkWindow(k - 1, len, M, V)
                        /\ ckRet.chunks[k].token_count
                              = Cardinality(CkWindow(k - 1, len, M, V))
                        /\ ckRet.chunks[k].order = k - 1
                  /\ UNION {CkPositions(ckRet.chunks[k]) : k \in 1..n}
                        = 0..(len - 1)
                  /\ \A k \in 1..(n - 1) :
                        Cardinality(CkPositions(ckRet.chunks[k])
                                    \cap CkPositions(ckRet.chunks[k + 1])) = V
                  /\ CkSumTokens(ckRet.chunks) - (n - 1) * V = len
            /\ V >= M => (~ckRet.ok /\ ckRet.chunks = <<>>)

\* a document of six tokens was cut with M = 3 and V = 1 into three chunks
C19_Witness ==
    /\ ckRet.op = "chunk" /\ ckRet.ok
    /\ Len(ckArgs.tokens) = 6
    /\ ckArgs.max_tokens = 3
    /\ ckArgs.overlap_tokens = 1
    /\ Len(ckRet.chunks) = 3
    /\ ckRet.chunks[3].content = <<5, 6>>

\* the tasks that are in a main loop: process_queue past its lock, run from
\* its first round until it returns
PqInLoop == {t \in PqCallers :
                pqPc[t] \in {"docs_by_status", "process_document", "persist_all"}}

RunInLoop == {r \in Runners :
                 runPc[r] \in {"select", "process_chunk_result", "relock"}}

\* C20: at any time at most one execution of the processing main loop is
\* active: a second call waits, before it processes a document or
\* dispatches a chunk, until the first has returned.
C20_SingleMainLoop == Cardinality(PqInLoop \cup RunInLoop) <= 1

(***************************************************************************)
(* Claims C21 to C30.                                                      *)
(***************************************************************************)

\* the key of the error record of request r
ErrorDocId(r) ==
    compute_mdhash_id(<<"error-", generate_track_id(r), "-", upName[r]>>, "error-")

\* the step in which enqueue_file of request r records its failed extraction
ErrorRecorded(r) == upPc[r] = "record_error" /\ upPc'[r] = "respond"

LlPosted == llPc = "post" /\ llPosts' = llPosts + 1

C22_AtMostFivePosts == llPosts <= MaxAttempts /\ llAttempt \in 0..(MaxAttempts - 1)

C22_TransientRetried ==
    [][LlPosted /\ llLast'.kind = "response" /\ Transient(llLast'.status)
           /\ llAttempt < MaxAttempts - 1
         => llPc' = "sleep" /\ llRet' = "none"]_vars
    /\ [][llPc = "sleep" => llPc' = "post" /\ llAttempt' = llAttempt + 1]_vars

C22_ClientErrorEnds ==
    [][LlPosted /\ llLast'.kind = "response" /\ ~is_success(llLast'.status)
           /\ ~Transient(llLast'.status)
         => llPc' = "done" /\ llRet' = "OpenAI error"]_vars
    /\ [][llPc = "done" => UNCHANGED llVars]_vars

C22_SuccessStartsPolling ==
    [][LlPosted /\ llLast'.kind = "response" /\ is_success(llLast'.status)
         => llPc' = "poll" /\ llGets' = 0]_vars

\* the last attempt came back with a 429 or 5xx and the call has returned
LastAttemptFailed ==
    /\ llPc = "done"
    /\ llAttempt = MaxAttempts - 1
    /\ llGets = 0
    /\ llLast.kind = "response"
    /\ Transient(llLast.status)

C22_RetriesExhausted == [](LastAttemptFailed => llRet = "Retries exhausted")

C22_RetryBudget ==
    /\ [](C22_AtMostFivePosts)
    /\ C22_TransientRetried
    /\ C22_ClientErrorEnds
    /\ C22_SuccessStartsPolling
    /\ C22_RetriesExhausted

\* the parts of C22 that hold: everything but the text of the last error
C22_BudgetWithoutMessage ==
    /\ [](C22_AtMostFivePosts)
    /\ C22_TransientRetried
    /\ C22_ClientErrorEnds
    /\ C22_SuccessStartsPolling
    /\ [](LastAttemptFailed => llRet = "OpenAI error" /\ llPosts = MaxAttempts)

\* ---------------------------------------------------------------------
\* C30: a network error or a per-request timeout on the create POST or on
\* a poll GET does not end responses_structured: the client goes on to a
\* sleep and a further request, as it does for HTTP 429 and 5xx.
\* ---------------------------------------------------------------------
LlPolled == llPc = "poll" /\ llGets' = llGets + 1

RequestFailed == llLast'.kind \in {"network", "timeout"}

C30_PollErrorRetried ==
    [][LlPolled /\ (RequestFailed \/ Transient(llLast'.status))
         => llPc' = "poll_sleep" /\ llRet' = "none"]_vars

C30_PostErrorRetried ==
    [][LlPosted /\ RequestFailed /\ llAttempt < MaxAttempts - 1
         => llPc' = "sleep" /\ llRet' = "none"]_vars

C30_TransientErrorsRetried == C30_PostErrorRetried /\ C30_PollErrorRetried

\* ---------------------------------------------------------------------
\* C23: move_to_enqueued renames the file to its own name in __enqueued__
\* if that path is free, otherwise to the candidate stem_k.ext (stem_k
\* without extension) with the smallest k >= 1 whose path is free; the
\* target does not exist before the rename, so no file of __enqueued__ is
\* overwritten; afterwards the source path no longer exists.
\* ---------------------------------------------------------------------
Renamed(m) == qrPc[m] = "rename" /\ qrRes'[m] = "Ok"

C23_SmallestFreeName ==
    [][\A m \in Movers : qrPc[m] = "unique_filename" /\ qrPc'[m] = "rename" =>
         IF qrName[m] \notin DOMAIN qrEnq
         THEN qrTarget'[m] = qrName[m]
         ELSE \E k \in 1..9 :
                /\ qrTarget'[m] = candidate_name(qrName[m].stem, qrName[m].ext, k)
                /\ qrTarget'[m] \notin DOMAIN qrEnq
                /\ \A j \in 1..(k - 1) :
                     candidate_name(qrName[m].stem, qrName[m].ext, j) \in DOMAIN qrEnq]_vars

C23_SourceGone ==
    [][\A m \in Movers : Renamed(m) =>
         /\ qrName[m] \notin DOMAIN qrInput'
         /\ qrTarget[m] \in DOMAIN qrEnq'
         /\ qrEnq'[qrTarget[m]] = qrInput[qrName[m]]]_vars

C23_NothingOverwritten ==
    [][\A m \in Movers : Renamed(m) =>
         /\ qrTarget[m] \notin DOMAIN qrEnq
         /\ \A e \in DOMAIN qrEnq : e \in DOMAIN qrEnq' /\ qrEnq'[e] = qrEnq[e]]_vars

C23_CollisionFreeQuarantine ==
    /\ C23_SmallestFreeName
    /\ C23_SourceGone
    /\ C23_NothingOverwritten

\* a file was moved to a candidate name because its own name was taken
C23_CandidateUsed ==
    \E m \in Movers : qrRes[m] = "Ok" /\ qrTarget[m] # qrName[m]

\* ---------------------------------------------------------------------
\* C24: finalize_all (and persist_all) visits the stores one after the
\* other in registration order and flushes each dirty one; when the call
\* has returned, every store that was dirty when it started has had its
\* flush performed, also the stores after one whose flush failed.
\* ---------------------------------------------------------------------
\* a store is visited only after every store registered before it
C24_InOrder ==
    [][\A s \in Stores : fzDirty[s] /\ ~fzDirty'[s] /\ fzOp # "none" =>
         /\ s = fzNext
         /\ \A t \in 1..(s - 1) : ~fzDirty[t]]_vars

C24_EveryDirtyStoreFlushed ==
    [](fzRet # "none" => \A s \in Stores : ~fzDirty[s])

C24_ShutdownFlush == C24_InOrder /\ C24_EveryDirtyStoreFlushed

\* what holds: a call that returns Ok has flushed every dirty store
C24_FlushedWhenOk ==
    [](fzRet = "Ok" => \A s \in Stores : ~fzDirty[s] /\ fzFlush[s] # "failed")

\* ---------------------------------------------------------------------
\* C25: on a schedule tick, get_pending_chunks_for_doc returns for the job
\* of document d exactly the text_chunks records with full_doc_id = d and
\* status Pending or Failed: no chunk of another document, whatever its
\* status, and no chunk of d with status Success.
\* ---------------------------------------------------------------------
\* the tick has called get_pending_chunks_for_doc for the ids it dispatches
TickSelected == schPc = "t_reread" /\ schPc' = "t_mark"

C25_OnlyChunksOfTheDocument ==
    [][TickSelected =>
         \A c \in tickIds' : textChunks[c].full_doc_id = tickJob.doc_id]_vars

C25_NoFinishedChunk ==
    [][TickSelected =>
         /\ \A c \in tickIds' : textChunks[c].status \in {"Pending", "Failed"}
         /\ \A c \in DOMAIN textChunks :
               /\ textChunks[c].full_doc_id = tickJob.doc_id
               /\ textChunks[c].status \in {"Pending", "Failed"}
               => c \in tickIds']_vars

C25_ChunkSelection == C25_OnlyChunksOfTheDocument /\ C25_NoFinishedChunk

\* ---------------------------------------------------------------------
\* C26: Queue.peek returns a job if and only if some queued job has status
\* Pending and next_run_at <= now, and the job it returns is the one of
\* those eligible jobs that is first in the FIFO; a job that is Processing,
\* Done or Failed is never returned; peek changes neither the FIFO nor the
\* map.
\* ---------------------------------------------------------------------
\* positions of the FIFO whose job is Pending and due
QuEligiblePositions ==
    {i \in 1..Len(quJobs) :
        /\ quJobs[i] \in DOMAIN quMap
        /\ quMap[quJobs[i]].job_status = "Pending"
        /\ quMap[quJobs[i]].next_run_at <= quNow}

Peeked == quRet'.op = "peek" /\ quNow' = quNow

C26_PeekEligibleFifo ==
    [][Peeked =>
         /\ (quRet'.job # QuNone) <=> (QuEligiblePositions # {})
         /\ \A i \in QuEligiblePositions :
               (\A k \in QuEligiblePositions : i <= k)
                   => quRet'.job = quMap[quJobs[i]]
         /\ quRet'.job.job_status \notin {"Processing", "Done", "Failed"}
         /\ UNCHANGED <<quJobs, quMap>>]_vars

\* peek has passed over a job that is not Pending and returned the next
C26_Witness ==
    /\ quRet.op = "peek"
    /\ Len(quJobs) = 2
    /\ quJobs[1] \in DOMAIN quMap
    /\ quMap[quJobs[1]].job_status \in {"Processing", "Done", "Failed"}
    /\ quRet.job # QuNone
    /\ quRet.job.job_id = quJobs[2]

\* ---------------------------------------------------------------------
\* C27: whenever the scheduler receives the JobResult of a chunk, the
\* text_chunks file already records that chunk with status "Success", for
\* every interleaving of the workers and the scheduler's own flushes, and
\* also when the flush of the worker fails.
\* ---------------------------------------------------------------------
C27_DurableBeforeObserved ==
    [][\A c \in DuWorkers :
          c \in duReceived' /\ c \notin duReceived => duDisk[c] = "Success"]_vars

\* the memory of the store does record the success when the result arrives
C27_InMemoryBeforeObserved ==
    [][\A c \in DuWorkers :
          c \in duReceived' /\ c \notin duReceived => duData[c] = "Success"]_vars


\* ---------------------------------------------------------------------
\* C28: for every job the queue's mark_processing and the doc_status write
\* PROCESSING, with chunks_list the ids of the selected chunks, happen once
\* per scheduling of the job, in the same tick; a job that is Processing is
\* not selected by a later tick; and once the tick is over, no job is
\* Processing in the queue while its doc_status record is still PENDING.
\* ---------------------------------------------------------------------
\* the queue marks a job Processing only from Pending, in the tick's step
C28_QueueMarkedOnce ==
    [][\A j \in DOMAIN qJobsMap :
          qJobsMap'[j].job_status = "Processing" /\ qJobsMap[j].job_status # "Processing"
            => /\ qJobsMap[j].job_status = "Pending"
               /\ schPc = "t_mark"
               /\ j = tickJob.job_id]_vars

\* doc_status turns PROCESSING only in the tick of the job, once
C28_StatusWrittenOnce ==
    [][\A d \in DOMAIN schDocStatus :
          schDocStatus'[d] # schDocStatus[d] /\ schDocStatus'[d].status = "PROCESSING"
            => /\ schDocStatus[d].status = "PENDING"
               /\ schPc = "t_status"
               /\ d = tickJob.doc_id
               /\ qJobsMap[tickJob.job_id].job_status = "Processing"
               /\ schDocStatus'[d].chunks_list = tickIds]_vars

C28_ProcessingNotSelected ==
    [][schPc = "select" /\ schPc' = "t_reread"
         => qJobsMap[tickJob'.job_id].job_status = "Pending"]_vars

\* no tick is under way
TickOver == schPc \notin (TickPcs \ {"select"})

C28_NoProcessingJobWithPendingDoc ==
    [](TickOver =>
         \A j \in DOMAIN qJobsMap :
            qJobsMap[j].job_status = "Processing"
              /\ qJobsMap[j].doc_id \in DOMAIN schDocStatus
              => schDocStatus[qJobsMap[j].doc_id].status # "PENDING")

C28_PendingToProcessingOnce ==
    /\ C28_QueueMarkedOnce
    /\ C28_StatusWrittenOnce
    /\ C28_ProcessingNotSelected
    /\ C28_NoProcessingJobWithPendingDoc

\* ---------------------------------------------------------------------
\* C29: a document whose processing yields zero chunks, or whose full_docs
\* record is missing or has no `content` field, ends with doc_status
\* FAILED (error "document produced no chunks" in the zero-chunk case); it
\* never ends PROCESSED.
\* ---------------------------------------------------------------------
\* the document is readable and the chunker has returned no chunk
ZeroChunks ==
    /\ pdDoc.has_content
    /\ pdPc \notin {"idle", "get_content", "chunk", "failed"}
    /\ pdErr = "none"
    /\ pdChunks = <<>>

Unreadable == pdPc # "idle" /\ ~(pdDoc.present /\ pdDoc.has_content)

C29_UnreadableFails ==
    /\ Unreadable => pdStatus.status \in {"PENDING", "FAILED"}
    /\ Unreadable /\ pdPc = "done" =>
          /\ pdStatus.status = "FAILED"
          /\ pdStatus.error_msg = IF pdDoc.present
                                  THEN "document content field missing"
                                  ELSE "document content missing"

C29_ZeroChunksFails ==
    /\ ZeroChunks => pdStatus.status # "PROCESSED"
    /\ ZeroChunks /\ pdPc = "done" =>
          /\ pdStatus.status = "FAILED"
          /\ pdStatus.error_msg = "document produced no chunks"

C29_FatalDocumentErrors == C29_UnreadableFails /\ C29_ZeroChunksFails

(***************************************************************************)
(* Claims C31 to C40.                                                      *)
(***************************************************************************)

\* the step in which task t leaves the point of JsonDocStatusStorage::upsert
\* that follows mark_dirty()
AfterMarkDirty(t) ==
    /\ flKind = "doc_status"
    /\ flPc[t] = "sync"
    /\ flPc'[t] # "sync"

\* the upsert of a status transition puts the record into the map and sets
\* the dirty flag, and that step leaves the file alone
C31_TransitionMarksDirty ==
    [][\A t \in FlTasks :
          (flKind = "doc_status" /\ flPc[t] = "idle" /\ flPc'[t] = "sync") =>
              /\ flDirty'
              /\ \E k \in FlKeys : flData'[k] = 1
              /\ UNCHANGED <<fsTarget, fsTmp, fsInodes>>]_vars

\* C31: enqueue_pending, mark_processing, mark_processed and mark_failed
\* (each one doc_status.upsert) update the in-memory map and set the dirty
\* flag, and return without clearing the flag and without writing the
\* doc-status file.
C31_TransitionsDoNotFlush ==
    /\ C31_TransitionMarksDirty
    /\ [][\A t \in FlTasks : AfterMarkDirty(t) =>
              /\ flDirty'
              /\ flPc'[t] = "idle"
              /\ UNCHANGED <<fsTarget, fsTmp, fsInodes>>]_vars

\* ---------------------------------------------------------------------
\* the step is a drop_all that returns Ok
DropAllOk == dsRet'.op = "drop_all" /\ dsRet'.ok

\* drop_all on a store that holds a record: when it returns Ok, the map is
\* empty, the file holds the empty map and the flag is clear
C32_DropAllOfRecords ==
    [][(DropAllOk /\ DsPresent(dsData) # {}) =>
          /\ DsPresent(dsData') = {}
          /\ DsPresent(dsDisk') = {}
          /\ ~dsDirty']_vars

\* C32: from every store state, also one whose map is empty and whose
\* dirty flag is set, a drop_all that returns Ok leaves the map empty, the
\* file holding the empty map and the dirty flag clear.
C32_DropAllEmptiesMemoryAndDisk ==
    [][DropAllOk =>
          /\ DsPresent(dsData') = {}
          /\ DsPresent(dsDisk') = {}
          /\ ~dsDirty']_vars

\* ---------------------------------------------------------------------
\* the ChunkStates that the step keeps: job id and position in job.chunks
KeptChunkStates ==
    {<<j, i>> \in (DOMAIN qJobsMap \cap DOMAIN qJobsMap') \X (1..ChunksPerDoc * NumDocs) :
        /\ i <= Len(qJobsMap[j].chunks)
        /\ i <= Len(qJobsMap'[j].chunks)
        /\ qJobsMap'[j].chunks[i].chunk_id = qJobsMap[j].chunks[i].chunk_id}

LifecycleSteps ==
    {<<"Pending", "Running">>, <<"Running", "Success">>,
     <<"Running", "Failed">>, <<"Failed", "Running">>}

\* a chunk_status changes only along the lifecycle
C33_OnlyLifecycleSteps ==
    [][\A p \in KeptChunkStates :
          LET old == qJobsMap[p[1]].chunks[p[2]].chunk_status
              new == qJobsMap'[p[1]].chunks[p[2]].chunk_status
          IN  old # new => <<old, new>> \in LifecycleSteps]_vars

\* a ChunkState that is Success stays Success
C33_SuccessIsFinal ==
    [][\A p \in KeptChunkStates :
          qJobsMap[p[1]].chunks[p[2]].chunk_status = "Success" =>
              qJobsMap'[p[1]].chunks[p[2]].chunk_status = "Success"]_vars

\* the step in which worker w leaves a failed extraction
ExtractionFailed(w) == wkPc[w] = "extract" /\ wkPc'[w] = "resend"

\* after a failed extraction the ChunkState of the chunk in its job is
\* Failed and its current_retry is one higher
C33_FailureRecorded ==
    [][\A w \in Workers : ExtractionFailed(w) =>
          \A p \in KeptChunkStates :
              (/\ p[1] = wkDispatch[w].job_id
               /\ qJobsMap[p[1]].chunks[p[2]].chunk_id = wkDispatch[w].chunk.chunk_id) =>
                  /\ qJobsMap'[p[1]].chunks[p[2]].chunk_status = "Failed"
                  /\ qJobsMap'[p[1]].chunks[p[2]].current_retry =
                         qJobsMap[p[1]].chunks[p[2]].current_retry + 1]_vars

\* C33: a ChunkState of a job moves only along Pending -> Running ->
\* Success or Failed and Failed -> Running; after a failed extraction it is
\* Failed with current_retry incremented; once Success it never changes.
C33_ChunkStateLifecycle ==
    /\ C33_OnlyLifecycleSteps
    /\ C33_SuccessIsFinal
    /\ C33_FailureRecorded

\* ---------------------------------------------------------------------
\* the step is a send of schedule_tick
TickSends == dpPc = "t_send" /\ dpIdx' = dpIdx + 1

\* C34: within one schedule tick the JobDispatch messages of the job are
\* sent in ascending chunk_order_index: each send after the first carries
\* a chunk whose index is above the index of the chunk sent before it.
C34_DispatchInChunkOrder ==
    [][(TickSends /\ dpIdx > 1) =>
          dpChunks[dpTickChunks[dpIdx - 1]].chunk_order_index
              < dpChunks[dpTickChunks[dpIdx]].chunk_order_index]_vars

\* ---------------------------------------------------------------------
\* worker w waits in the send of its retry on a full work channel
BlockedOnResend(w) == dpWkPc[w] = "resend" /\ Len(dpWorkCh) >= DpCapacity

\* C38: no reachable state has every worker of the pool blocked on
\* sending its failed dispatch into the full work channel: some worker can
\* always receive, so a worker that resends gets its message in.
C38_PoolNeverBlocked ==
    ~(\A w \in DpWorkers : BlockedOnResend(w))

\* once every worker is blocked, every worker stays blocked
C38_PoolBlockedForever ==
    [][(\A w \in DpWorkers : BlockedOnResend(w)) =>
          (\A w \in DpWorkers : BlockedOnResend(w))']_vars

\* ---------------------------------------------------------------------
\* the tick has marked the job Processing and has chunks of it left to send
TickMidDispatch ==
    /\ dpPc = "t_send"
    /\ dpJobStatus = "Processing"
    /\ dpIdx <= Len(dpTickChunks)

\* the job is Processing, nothing is in flight and nobody is at work, while
\* a chunk of the job still waits as Pending
DispatchAbandoned ==
    /\ dpJobStatus = "Processing"
    /\ dpPc = "select"
    /\ dpWorkCh = <<>>
    /\ dpResultCh = <<>>
    /\ \A w \in DpWorkers : dpWkPc[w] = "idle"
    /\ \E c \in DpChunkIds : dpChunks[c].status = "Pending"

\* C35: a tick that has marked its job Processing sends one JobDispatch
\* for every chunk of the job; a result that arrives while the tick waits in
\* a send does not make `select!` drop the tick: the tick stays in its send
\* loop until the last chunk is sent.
C35_CompleteDispatch ==
    [][TickMidDispatch =>
          \/ (dpPc' = "t_send" /\ dpTickChunks' = dpTickChunks /\ dpIdx' >= dpIdx)
          \/ (dpPc' = "t_sleep" /\ dpIdx' = Len(dpTickChunks) + 1)]_vars

\* ---------------------------------------------------------------------
\* the FIFO holds `capacity` entries
QuFull == Len(quJobs) >= QuCapacity

\* the FIFO never holds more than `capacity` entries
C36_AtMostCapacity == [](Len(quJobs) <= QuCapacity)

\* requeue of a job whose current_retry is above max_retries returns an
\* error and leaves the queue as it is
C36_WornJobRefused ==
    [][\A retry \in QuRetries : (QuRequeue(retry) /\ retry > JobMaxRetries) =>
          /\ ~quRet'.ok
          /\ quRet'.err = "Max retries reachd"
          /\ UNCHANGED <<quJobs, quMap>>]_vars

C36_WornWitness == quRet.op = "requeue" /\ quRet.err = "Max retries reachd"

\* ---------------------------------------------------------------------
QuFifoIds == {quJobs[i] : i \in 1..Len(quJobs)}

\* every entry of jobs_map has its id in the FIFO
C40_MapWithinFifo == [](DOMAIN quMap \subseteq QuFifoIds)

\* dequeue on a FIFO that is not empty removes its oldest entry, and the
\* entry of that id from the map
C40_DequeueTakesOldest ==
    [][(QuDequeue /\ quJobs # <<>>) =>
          /\ quJobs' = Tail(quJobs)
          /\ Head(quJobs) \notin DOMAIN quMap']_vars

\* C40: every job_id occurs at most once in the FIFO, every id of the FIFO
\* has an entry in jobs_map and every entry of jobs_map has its id in the
\* FIFO; enqueue of a job_id that is already queued adds no second FIFO
\* entry; dequeue returns the job of the oldest FIFO entry and removes it
\* from both structures.
C40_QueueConsistent ==
    /\ [](\A i, k \in 1..Len(quJobs) : i # k => quJobs[i] # quJobs[k])
    /\ [](QuFifoIds \subseteq DOMAIN quMap)
    /\ C40_MapWithinFifo
    /\ [][\A id \in QuIds : (QuEnqueue(id) /\ QuContains(quJobs, id)) =>
              quJobs' = quJobs]_vars
    /\ [][(QuDequeue /\ quJobs # <<>>) =>
              /\ Head(quJobs) \in DOMAIN quMap
              /\ quRet'.job = quMap[Head(quJobs)]]_vars
    /\ C40_DequeueTakesOldest

\* ---------------------------------------------------------------------
\* process_document has stored the chunk records of its document
ChunksStored ==
    \/ pdPc = "mark_processed"
    \/ (pdPc = "done" /\ pdStatus.status = "PROCESSED")

RecordsOfDoc == {id \in DOMAIN pdStore : pdStore[id].full_doc_id = PdDocId}

\* chunk_order_index is unique among the stored records of the document
C37_OrderIndexUnique ==
    ChunksStored =>
        \A a, b \in RecordsOfDoc :
            a # b => pdStore[a].chunk_order_index # pdStore[b].chunk_order_index

\* chunks of pairwise different content are stored one record each
C37_DistinctContentsStored ==
    (/\ ChunksStored
     /\ \A i, k \in 1..Len(pdChunks) :
            i # k => pdChunks[i].content # pdChunks[k].content) =>
        Cardinality(RecordsOfDoc) = Len(pdChunks)

\* C37: the chunks of a document map to distinct text_chunks records: the
\* number of records with full_doc_id = d equals the number of chunks of d
\* and chunk_order_index is unique among them, also when two chunks of
\* the document have the same content.
C37_OneRecordPerChunk ==
    /\ C37_OrderIndexUnique
    /\ ChunksStored => Cardinality(RecordsOfDoc) = Len(pdChunks)

\* ---------------------------------------------------------------------
\* the step in which process_chunk_result upserts the records of a result
EntitiesWritten == schPc = "r_upsert" /\ schPc' = "select"

\* the records written carry the doc_id of the chunk's text_chunks record
C39_EntitiesOfTheirDocument ==
    [][EntitiesWritten =>
          /\ schResult.chunk_id \in DOMAIN textChunks
          /\ schResult.doc_id = textChunks[schResult.chunk_id].full_doc_id]_vars

\* a JobDispatch that a tick sends carries a chunk of the job's document
C39_DispatchOfTheJobsDocument ==
    [][(schPc = "t_send" /\ tickIdx' = tickIdx + 1) =>
          textChunks[tickJob.chunks[tickIdx].chunk_id].full_doc_id
              = tickJob.doc_id]_vars

\* the dispatches and results under way: job id and chunk id
InFlight ==
    {<<workCh[i].job_id, workCh[i].chunk.chunk_id>> : i \in 1..Len(workCh)}
    \cup {<<wkDispatch[w].job_id, wkDispatch[w].chunk.chunk_id>> :
             w \in {v \in Workers : wkDispatch[v] # NoDispatch}}
    \cup {<<resultCh[i].job_id, resultCh[i].chunk_id>> : i \in 1..Len(resultCh)}
    \cup (IF schResult = NoResult THEN {}
          ELSE {<<schResult.job_id, schResult.chunk_id>>})

\* no chunk is under way for two jobs at once
C39_OneJobPerChunkInFlight ==
    \A a, b \in InFlight : a[2] = b[2] => a[1] = b[1]

\* a dispatch and a result carry the doc_id of their job
C39_DocIdOfTheJob ==
    /\ \A i \in 1..Len(workCh) :
          workCh[i].job_id = JobId(workCh[i].chunk.doc_id)
    /\ \A i \in 1..Len(resultCh) :
          resultCh[i].job_id = JobId(resultCh[i].doc_id)

\* C39: every record written to full_entities or full_relations carries a
\* doc_id equal to the full_doc_id of the text_chunks record of its
\* chunk_id; every JobDispatch sent for a job carries a chunk whose
\* full_doc_id is the job's doc_id; no chunk is in flight for two
\* different jobs at the same time.
C39_EntityAttribution ==
    /\ C39_EntitiesOfTheirDocument
    /\ C39_DispatchOfTheJobsDocument
    /\ [](C39_OneJobPerChunkInFlight)
====
